---- MODULE Spec2Model ----
(***************************************************************************)
(* Host side of touchpad-mobile: the admission handshake of the discovery  *)
(* service (server/backend/src/discover_service.rs), the touch server and  *)
(* its workers (server/backend/src/touch_server.rs), the latency tracker   *)
(* (server/backend/src/latency.rs), the virtual touchpad driver            *)
(* (server/core-kit/src/driver.rs), the frame codec                        *)
(* (touchpad-proto/src/codec.rs) and the orchestrator                      *)
(* (server/cli/src/main.rs).                                               *)
(*                                                                         *)
(* The specifications share the variables:                                 *)
(*   EmitterSpec    the driver, called with batches of touch points;       *)
(*   ToolCountSpec  the driver's key events as the touched count changes;  *)
(*   SensitivitySpec, SettingsSpec  the driver's Moves under its settings; *)
(*   LatencySpec    the latency tracker under its callers;                 *)
(*   AdmissionSpec  the admission TCP server and the admitted-devices map; *)
(*   PipelineSpec   established streams, the touch-event channel and the   *)
(*                  processor that feeds the driver;                       *)
(*   Spec           the touch server's acceptor and connection workers,    *)
(*                  the frames they handle, and close();                   *)
(*   ShutdownSpec   close() and every task of the touch server, under      *)
(*                  fair scheduling of the tasks;                          *)
(*   CodecSpec      one ProtoStream: send_message, receive_message and a   *)
(*                  peer that writes frames of its own;                    *)
(*   ProtocolSpec   the touch server's workers reading transport streams   *)
(*                  frame by frame, under fair scheduling of the tasks;    *)
(*   DiscoverySpec  discover(), the admission server task and close();     *)
(*   OrchestratorSpec  main, from discover() to its return;                *)
(*   TeardownSpec   close() of the touch server followed by close() of the *)
(*                  discovery service, with devices admitted;              *)
(*   SignalSpec     ProtocolSpec with ConnectionClose(id) broadcast on the *)
(*                  shutdown watch;                                        *)
(*   TwoStreamsSpec two connections that send gap-free packet streams on   *)
(*                  disjoint slots, and the processor;                     *)
(*   VarintSpec     the length prefix: encode_with_length_prefix and       *)
(*                  read_varint_async.                                     *)
(* Each specification leaves the variables of the others unchanged.        *)
(***************************************************************************)
EXTENDS Integers, Sequences, FiniteSets, TLC

VARIABLES
    \* ---- driver.rs: struct Driver, and what the last emit_multitouch wrote
    driver,             \* the Driver's fields
    emitted,            \* events handed to device.emit by the last call
    driverWork,         \* touch points and calls the driver has handled (bounds the run)
    \* ---- discover_service.rs: admission
    listening_device,   \* DeviceMap: ip -> Device (shared with the touch server)
    insertedBy,         \* history: ip -> who inserted the entry now in the map
                        \*   (0: admission, c: a RegisterDevice frame on connection c)
    adm,                \* per admission connection: task position, peer, frame, replies
    callbacks,          \* discover_callback invocations, in order
    ErrorCode,          \* numeric values of the proto enum ErrorCode
    seed_checksum,      \* xxh3_64 of the configured checksum_seed
    \* ---- touch_server.rs: shutdown watch, workers, connections
    shutdown,           \* the value in the watch channel
    closePc,            \* number of sends TouchServer::close has made
    touchProc,          \* touch_event_processor task: [pc, changed]
    latencyProc,        \* latency_handler task: [pc, changed]
    acceptor,           \* connection_handler task: [pc, changed, drain, conn]
    connections,        \* ids in the live-connections map
    worker,             \* per connection: the spawned worker task and its transport
    clock_offset_ms,    \* RealtimeLatencyTracker.clock_offset_ms
    registered,         \* history: per connection, a RegisterDevice frame was handled
    \* ---- driver.rs: the uinput device behind the Driver, and the last call
    key_state,          \* the KEY events the device has received: key -> last value
    last_batch,         \* history: the argument of the last emit_multitouch
    mt_slot,            \* the device's current slot: the last ABS_MT_SLOT it received
    \* ---- touch_server.rs: the touch-event channel between workers and processor
    touch_events,       \* mpsc queue of TouchpadEvent, each tagged with its origin
    enqueued,           \* history: per connection, the events it has sent so far
    emit_log,           \* history: the events the processor has handed to the driver
    \* ---- latency.rs: struct RealtimeLatencyTracker (but for clock_offset_ms)
    tracker,            \* the tracker's fields
    latency_data,       \* what the last record_packet returned, with its arguments
    seq_log,            \* history: seq of every record_packet since new() or reset()
    overflow_checks,    \* the build: arithmetic overflow panics (debug) or wraps (release)
    \* ---- codec.rs: one ProtoStream, and the frames of the transport streams
    reader,             \* the bytes waiting in the ProtoStream's reader
    codec,              \* the last send_message / receive_message and what it returned
    frame_errors,       \* history: connections on which receive_message met a bad frame
    \* ---- cli main.rs and discover_service.rs: start-up and close()
    main,               \* the orchestrator: [pc, calls]
    discovery           \* DiscoverService: stop_signal, mdns_daemon, the admission
                        \*   server task and the position of close()

driverVars == <<driver, emitted, driverWork>>
admVars == <<adm, callbacks, ErrorCode, seed_checksum>>
mapVars == <<listening_device, insertedBy>>
serverVars == <<shutdown, closePc, touchProc, latencyProc, acceptor, connections,
                worker, clock_offset_ms, registered>>
lifecycleVars == <<shutdown, closePc, touchProc, latencyProc, acceptor, connections,
                   worker, registered>>
emitVars == <<key_state, last_batch, mt_slot>>
pipeVars == <<touch_events, enqueued, emit_log>>
trackerVars == <<tracker, latency_data, seq_log, overflow_checks>>
codecVars == <<reader, codec, frame_errors>>
orchVars == <<main, discovery>>
hostVars == <<codecVars, orchVars>>
\* what the discovery service's start-up and close() and main never touch
besideHost == <<driverVars, admVars, mapVars, emitVars, pipeVars, trackerVars, codecVars>>
dataVars == <<emitVars, pipeVars, trackerVars, hostVars>>
vars == <<driverVars, admVars, mapVars, serverVars, dataVars>>

(***************************************************************************)
(* Maps (HashMap) as functions on the set of their keys.                   *)
(***************************************************************************)
MapInsert(m, k, v) == [x \in DOMAIN m \cup {k} |-> IF x = k THEN v ELSE m[x]]

MapRemove(m, k) == [x \in DOMAIN m \ {k} |-> m[x]]

EmptyMap == [x \in {} |-> 0]

(***************************************************************************)
(*                       driver.rs: the touch emitter                      *)
(***************************************************************************)
MaxSlot == 1
MaxCoord == 1
MaxBatch == 2
MaxDriverWork == 3
\* sensitivity is held in units of 1/SensDen (f32 products of these values
\* and the small coordinates are exact)
SensDen == 2
MaxSens == 4

Slots == 0..MaxSlot
Coords == 0..MaxCoord
TrackingIds == {-1, 7}
TouchStatus == {"Down", "Up", "Move"}
TouchPoints == [slot : Slots, tracking_id : TrackingIds, x : Coords, y : {0, MaxCoord},
                status : TouchStatus]
Sensitivities == 1..MaxSens

\* the batches of exactly n touch points
Batches(n) == [1..n -> TouchPoints]

\* what a call costs of the run's budget
Cost(n) == IF n = 0 THEN 1 ELSE n

DriverNew(width, height) ==
    [width |-> width, height |-> height,
     touched_slots |-> {},
     last_input_position |-> EmptyMap,
     last_output_position |-> EmptyMap,
     sensitivity |-> SensDen,
     invert_x |-> FALSE,
     invert_y |-> FALSE]

\* f32::round: to the nearest integer, halves away from zero; n / d with d > 0
RoundDiv(n, d) ==
    IF n >= 0 THEN (2 * n + d) \div (2 * d) ELSE -((2 * (-n) + d) \div (2 * d))

\* the tool key of a count of 1..5 touched slots
ToolKey == <<"BTN_TOOL_FINGER", "BTN_TOOL_DOUBLETAP", "BTN_TOOL_TRIPLETAP",
             "BTN_TOOL_QUADTAP", "BTN_TOOL_QUINTTAP">>

\* the key event of leaving a count: BTN_TOUCH pressed when leaving 0, the
\* tool key of 1..5 released, nothing above 5
LeaveEvents(a) ==
    IF a = 0 THEN << <<"BTN_TOUCH", 1>> >>
    ELSE IF a \in 1..5 THEN << <<ToolKey[a], 0>> >> ELSE <<>>

\* the key event of entering a count: BTN_TOUCH released when entering 0, the
\* tool key of 1..5 pressed, nothing above 5
EnterEvents(b) ==
    IF b = 0 THEN << <<"BTN_TOUCH", 0>> >>
    ELSE IF b \in 1..5 THEN << <<ToolKey[b], 1>> >> ELSE <<>>

\* key events without the comparison of the two counts
GetSlotChangedEventsNoEqualityCheck(old_count, new_count) ==
    LeaveEvents(old_count) \o EnterEvents(new_count)

\* key events for the count entered only
GetSlotChangedEventsEnterOnly(old_count, new_count) ==
    IF old_count = new_count THEN <<>> ELSE EnterEvents(new_count)

GetSlotChangedEvents(old_count, new_count) ==
    IF old_count = new_count THEN <<>>
    ELSE (CASE old_count = 0 -> << <<"BTN_TOUCH", 1>> >>
            [] old_count = 1 -> << <<"BTN_TOOL_FINGER", 0>> >>
            [] old_count = 2 -> << <<"BTN_TOOL_DOUBLETAP", 0>> >>
            [] old_count = 3 -> << <<"BTN_TOOL_TRIPLETAP", 0>> >>
            [] old_count = 4 -> << <<"BTN_TOOL_QUADTAP", 0>> >>
            [] old_count = 5 -> << <<"BTN_TOOL_QUINTTAP", 0>> >>
            [] OTHER -> <<>>)
         \o
         (CASE new_count = 0 -> << <<"BTN_TOUCH", 0>> >>
            [] new_count = 1 -> << <<"BTN_TOOL_FINGER", 1>> >>
            [] new_count = 2 -> << <<"BTN_TOOL_DOUBLETAP", 1>> >>
            [] new_count = 3 -> << <<"BTN_TOOL_TRIPLETAP", 1>> >>
            [] new_count = 4 -> << <<"BTN_TOOL_QUADTAP", 1>> >>
            [] new_count = 5 -> << <<"BTN_TOOL_QUINTTAP", 1>> >>
            [] OTHER -> <<>>)

EmitPointDown(d, point) ==
    [drv |-> [d EXCEPT
                !.last_input_position = MapInsert(@, point.slot, <<point.x, point.y>>),
                !.last_output_position = MapInsert(@, point.slot, <<point.x, point.y>>)],
     events |-> << <<"ABS_MT_SLOT", point.slot>>,
                   <<"ABS_MT_TRACKING_ID", point.tracking_id>>,
                   <<"ABS_MT_POSITION_X", point.x>>,
                   <<"ABS_MT_POSITION_Y", point.y>>,
                   <<"ABS_X", point.x>>,
                   <<"ABS_Y", point.y>> >>]

\* an Up that writes the tracking id its point carries
EmitPointUpPassThrough(d, point) ==
    [drv |-> [d EXCEPT
                !.last_input_position = MapRemove(@, point.slot),
                !.last_output_position = MapRemove(@, point.slot)],
     events |-> << <<"ABS_MT_SLOT", point.slot>>,
                   <<"ABS_MT_TRACKING_ID", point.tracking_id>> >>]

\* an Up that forgets the positions of every slot
EmitPointUpForgetsAll(d, point) ==
    [drv |-> [d EXCEPT !.last_input_position = EmptyMap,
                       !.last_output_position = EmptyMap],
     events |-> << <<"ABS_MT_SLOT", point.slot>>, <<"ABS_MT_TRACKING_ID", -1>> >>]

EmitPointUp(d, point) ==
    [drv |-> [d EXCEPT
                !.last_input_position = MapRemove(@, point.slot),
                !.last_output_position = MapRemove(@, point.slot)],
     events |-> << <<"ABS_MT_SLOT", point.slot>>, <<"ABS_MT_TRACKING_ID", -1>> >>]

\* v held inside 0..limit
Clamp(v, limit) == IF v < 0 THEN 0 ELSE IF v > limit THEN limit ELSE v

\* a Move that keeps its output inside the size of the device
EmitPointMoveClamped(d, point) ==
    LET default == <<point.x, point.y>>
        last_input == IF point.slot \in DOMAIN d.last_input_position
                      THEN d.last_input_position[point.slot] ELSE default
        last_output == IF point.slot \in DOMAIN d.last_output_position
                       THEN d.last_output_position[point.slot] ELSE default
        scaled_delta_x == (IF d.invert_x THEN -1 ELSE 1) * (point.x - last_input[1])
                             * d.sensitivity
        scaled_delta_y == (IF d.invert_y THEN -1 ELSE 1) * (point.y - last_input[2])
                             * d.sensitivity
        point_x == Clamp(RoundDiv(last_output[1] * SensDen + scaled_delta_x, SensDen), d.width)
        point_y == Clamp(RoundDiv(last_output[2] * SensDen + scaled_delta_y, SensDen), d.height)
    IN [drv |-> [d EXCEPT
                   !.last_input_position = MapInsert(@, point.slot, default),
                   !.last_output_position = MapInsert(@, point.slot, <<point_x, point_y>>)],
        events |-> (IF Cardinality(d.touched_slots) > 1
                    THEN << <<"ABS_MT_SLOT", point.slot>>,
                            <<"ABS_MT_TRACKING_ID", point.tracking_id>> >>
                    ELSE <<>>)
                   \o << <<"ABS_MT_POSITION_X", point_x>>,
                         <<"ABS_MT_POSITION_Y", point_y>>,
                         <<"ABS_X", point_x>>,
                         <<"ABS_Y", point_y>> >>]

\* a Move that ignores invert_x
EmitPointMoveNoInvertX(d, point) ==
    LET default == <<point.x, point.y>>
        last_input == IF point.slot \in DOMAIN d.last_input_position
                      THEN d.last_input_position[point.slot] ELSE default
        last_output == IF point.slot \in DOMAIN d.last_output_position
                       THEN d.last_output_position[point.slot] ELSE default
        scaled_delta_x == (point.x - last_input[1]) * d.sensitivity
        scaled_delta_y == (IF d.invert_y THEN -1 ELSE 1) * (point.y - last_input[2])
                             * d.sensitivity
        point_x == RoundDiv(last_output[1] * SensDen + scaled_delta_x, SensDen)
        point_y == RoundDiv(last_output[2] * SensDen + scaled_delta_y, SensDen)
    IN [drv |-> [d EXCEPT
                   !.last_input_position = MapInsert(@, point.slot, default),
                   !.last_output_position = MapInsert(@, point.slot, <<point_x, point_y>>)],
        events |-> (IF Cardinality(d.touched_slots) > 1
                    THEN << <<"ABS_MT_SLOT", point.slot>>,
                            <<"ABS_MT_TRACKING_ID", point.tracking_id>> >>
                    ELSE <<>>)
                   \o << <<"ABS_MT_POSITION_X", point_x>>,
                         <<"ABS_MT_POSITION_Y", point_y>>,
                         <<"ABS_X", point_x>>,
                         <<"ABS_Y", point_y>> >>]

EmitPointMove(d, point) ==
    LET default == <<point.x, point.y>>
        last_input == IF point.slot \in DOMAIN d.last_input_position
                      THEN d.last_input_position[point.slot] ELSE default
        last_output == IF point.slot \in DOMAIN d.last_output_position
                       THEN d.last_output_position[point.slot] ELSE default
        delta_x == point.x - last_input[1]
        delta_y == point.y - last_input[2]
        \* numerators over SensDen
        scaled_delta_x == IF d.invert_x THEN (-delta_x) * d.sensitivity
                          ELSE delta_x * d.sensitivity
        scaled_delta_y == IF d.invert_y THEN (-delta_y) * d.sensitivity
                          ELSE delta_y * d.sensitivity
        point_x == RoundDiv(last_output[1] * SensDen + scaled_delta_x, SensDen)
        point_y == RoundDiv(last_output[2] * SensDen + scaled_delta_y, SensDen)
    IN [drv |-> [d EXCEPT
                   !.last_input_position = MapInsert(@, point.slot, default),
                   !.last_output_position = MapInsert(@, point.slot, <<point_x, point_y>>)],
        events |-> (IF Cardinality(d.touched_slots) > 1
                    THEN << <<"ABS_MT_SLOT", point.slot>>,
                            <<"ABS_MT_TRACKING_ID", point.tracking_id>> >>
                    ELSE <<>>)
                   \o << <<"ABS_MT_POSITION_X", point_x>>,
                         <<"ABS_MT_POSITION_Y", point_y>>,
                         <<"ABS_X", point_x>>,
                         <<"ABS_Y", point_y>> >>]

\* an iteration whose Move never writes its slot and tracking id
EmitPointMoveBare(d, point) ==
    CASE point.status = "Down" ->
           EmitPointDown([d EXCEPT !.touched_slots = @ \cup {point.slot}], point)
      [] point.status = "Up" ->
           EmitPointUp([d EXCEPT !.touched_slots = @ \ {point.slot}], point)
      [] point.status = "Move" ->
           LET r == EmitPointMove([d EXCEPT !.touched_slots = {}], point)
           IN [drv |-> [r.drv EXCEPT !.touched_slots = d.touched_slots],
               events |-> r.events]

\* one iteration of the loop of emit_multitouch
EmitPoint(d, point) ==
    CASE point.status = "Down" ->
           EmitPointDown([d EXCEPT !.touched_slots = @ \cup {point.slot}], point)
      [] point.status = "Up" ->
           EmitPointUp([d EXCEPT !.touched_slots = @ \ {point.slot}], point)
      [] point.status = "Move" -> EmitPointMove(d, point)

RECURSIVE EmitPoints(_, _, _)
EmitPoints(d, touche_points, events) ==
    IF touche_points = <<>> THEN [drv |-> d, events |-> events]
    ELSE LET r == EmitPoint(d, Head(touche_points))
         IN EmitPoints(r.drv, Tail(touche_points), events \o r.events)

\* an emitter that reports nothing for a batch that made no event
EmitMultitouchSkipsEmpty(d, touche_points) ==
    LET old_slots_count == Cardinality(d.touched_slots)
        r == EmitPoints(d, touche_points, <<>>)
        new_slots_count == Cardinality(r.drv.touched_slots)
        events == r.events \o GetSlotChangedEvents(old_slots_count, new_slots_count)
    IN [drv |-> r.drv,
        events |-> IF events = <<>> THEN <<>> ELSE events \o << <<"SYN_REPORT", 1>> >>]

EmitMultitouch(d, touche_points) ==
    LET old_slots_count == Cardinality(d.touched_slots)
        r == EmitPoints(d, touche_points, <<>>)
        new_slots_count == Cardinality(r.drv.touched_slots)
    IN [drv |-> r.drv,
        events |-> r.events \o GetSlotChangedEvents(old_slots_count, new_slots_count)
                   \o << <<"SYN_REPORT", 1>> >>]

\* the keys of the virtual device
KeyNames == {"BTN_TOUCH", "BTN_TOOL_FINGER", "BTN_TOOL_DOUBLETAP", "BTN_TOOL_TRIPLETAP",
             "BTN_TOOL_QUADTAP", "BTN_TOOL_QUINTTAP"}

\* a device just created: every key released
KeysReleased == [k \in KeyNames |-> 0]

\* device.emit(&events), as far as the keys go: each KEY event sets its key
RECURSIVE DeviceEmit(_, _)
DeviceEmit(keys, events) ==
    IF events = <<>> THEN keys
    ELSE DeviceEmit(IF Head(events)[1] \in KeyNames
                    THEN [keys EXCEPT ![Head(events)[1]] = Head(events)[2]]
                    ELSE keys,
                    Tail(events))

\* device.emit(&events), as far as the current slot goes: the value of the
\* last ABS_MT_SLOT event, or the slot that was current
RECURSIVE DeviceSlot(_, _)
DeviceSlot(slot, events) ==
    IF events = <<>> THEN slot
    ELSE DeviceSlot(IF Head(events)[1] = "ABS_MT_SLOT" THEN Head(events)[2] ELSE slot,
                    Tail(events))

\* emit_multitouch on the shared driver: its writes, without the run's budget
CallEmitMultitouch(touche_points) ==
    LET r == EmitMultitouch(driver, touche_points)
    IN /\ driver' = r.drv
       /\ emitted' = r.events
       /\ key_state' = DeviceEmit(key_state, r.events)
       /\ last_batch' = touche_points
       /\ mt_slot' = DeviceSlot(mt_slot, r.events)

DriverEmit(touche_points) ==
    /\ driverWork + Cost(Len(touche_points)) <= MaxDriverWork
    /\ CallEmitMultitouch(touche_points)
    /\ driverWork' = driverWork + Cost(Len(touche_points))

SetSensitivity(sensitivity) ==
    /\ driverWork < MaxDriverWork
    /\ driver' = [driver EXCEPT !.sensitivity = sensitivity]
    /\ driverWork' = driverWork + 1
    /\ UNCHANGED <<emitted, emitVars>>

SetSize(width, height) ==
    /\ driverWork < MaxDriverWork
    /\ driver' = [driver EXCEPT !.width = width, !.height = height]
    /\ driverWork' = driverWork + 1
    /\ UNCHANGED <<emitted, emitVars>>

SetInvertX(invert_x) ==
    /\ driverWork < MaxDriverWork
    /\ driver' = [driver EXCEPT !.invert_x = invert_x]
    /\ driverWork' = driverWork + 1
    /\ UNCHANGED <<emitted, emitVars>>

SetInvertY(invert_y) ==
    /\ driverWork < MaxDriverWork
    /\ driver' = [driver EXCEPT !.invert_y = invert_y]
    /\ driverWork' = driverWork + 1
    /\ UNCHANGED <<emitted, emitVars>>

(***************************************************************************)
(*                   latency.rs: RealtimeLatencyTracker                    *)
(***************************************************************************)
\* seq is a u32; the model's u32 has SeqBits bits
SeqBits == 3
MaxPackets == 3

SeqModulus == 2 ^ SeqBits
Seqs == 0..(SeqModulus - 1)

None == [some |-> FALSE]

Some(v) == [some |-> TRUE, value |-> v]

RECURSIVE SumSeq(_)
SumSeq(q) == IF q = <<>> THEN 0 ELSE Head(q) + SumSeq(Tail(q))

\* RealtimeLatencyTracker::new; poisoned is the state of the Mutex around it
TrackerNew(window_size) ==
    [samples |-> <<>>, max_samples |-> window_size, expected_seq |-> 0,
     total_packets |-> 0, lost_packets |-> 0,
     min_latency |-> None, max_latency |-> None, poisoned |-> FALSE]

\* RealtimeLatencyTracker::reset
TrackerReset(t) ==
    [t EXCEPT !.samples = <<>>, !.expected_seq = 0, !.total_packets = 0,
              !.lost_packets = 0, !.min_latency = None, !.max_latency = None]

\* the head of record_packet: the packet count and the loss detection
\* a tracker that takes its first packet for a gap
CountPacketNoBaseline(t, seq) ==
    [t EXCEPT !.total_packets = @ + 1,
              !.lost_packets = IF seq > t.expected_seq
                               THEN @ + (seq - t.expected_seq) ELSE @]

CountPacket(t, seq) ==
    [t EXCEPT !.total_packets = @ + 1,
              !.lost_packets = IF t.expected_seq > 0 /\ seq > t.expected_seq
                               THEN @ + (seq - t.expected_seq) ELSE @]

\* a latency that adds the clock offset to the phone's time
LatencyUsOffsetAdded(offset_ms, phone_ts_ms, server_ts_us) ==
    server_ts_us - (phone_ts_ms * 1000 + offset_ms * 1000)

\* latency_us of record_packet
LatencyUs(offset_ms, phone_ts_ms, server_ts_us) ==
    server_ts_us - (phone_ts_ms * 1000 - offset_ms * 1000)

\* the packet-loss rate, a percentage, as the fraction <<numerator, denominator>>
PacketLossRate(t) ==
    IF t.total_packets > 0 THEN <<t.lost_packets * 100, t.total_packets>> ELSE <<0, 1>>

\* a record_packet that takes a negative latency into the ring and into the
\* running min and max before it returns None
RecordLatencyKeepsNegative(t, offset_ms, seq, phone_ts_ms, server_ts_us) ==
    LET latency_us == LatencyUs(offset_ms, phone_ts_ms, server_ts_us)
        pushed == Append(t.samples, latency_us)
        samples == IF Len(pushed) > t.max_samples THEN Tail(pushed) ELSE pushed
        u == [t EXCEPT
                !.min_latency = IF ~t.min_latency.some \/ latency_us < t.min_latency.value
                                THEN Some(latency_us) ELSE @,
                !.max_latency = IF ~t.max_latency.some \/ latency_us > t.max_latency.value
                                THEN Some(latency_us) ELSE @,
                !.samples = samples]
    IN IF latency_us < 0
       THEN [tracker |-> u, returned |-> None]
       ELSE [tracker |-> u,
             returned |-> Some([current_latency_us |-> latency_us,
                                avg_latency_us |-> IF samples = <<>> THEN 0
                                                   ELSE SumSeq(samples) \div Len(samples),
                                min_latency_us |-> u.min_latency.value,
                                max_latency_us |-> u.max_latency.value,
                                packet_loss_rate |-> PacketLossRate(u),
                                total_packets |-> u.total_packets,
                                seq |-> seq])]

\* a record_packet whose full ring drops the sample that has just arrived
RecordLatencyEvictsNewest(t, offset_ms, seq, phone_ts_ms, server_ts_us) ==
    LET latency_us == LatencyUs(offset_ms, phone_ts_ms, server_ts_us)
        pushed == Append(t.samples, latency_us)
        samples == IF Len(pushed) > t.max_samples
                   THEN SubSeq(pushed, 1, Len(pushed) - 1) ELSE pushed
        u == [t EXCEPT
                !.min_latency = IF ~t.min_latency.some \/ latency_us < t.min_latency.value
                                THEN Some(latency_us) ELSE @,
                !.max_latency = IF ~t.max_latency.some \/ latency_us > t.max_latency.value
                                THEN Some(latency_us) ELSE @,
                !.samples = samples]
    IN IF latency_us < 0
       THEN [tracker |-> t, returned |-> None]
       ELSE [tracker |-> u,
             returned |-> Some([current_latency_us |-> latency_us,
                                avg_latency_us |-> IF samples = <<>> THEN 0
                                                   ELSE SumSeq(samples) \div Len(samples),
                                min_latency_us |-> u.min_latency.value,
                                max_latency_us |-> u.max_latency.value,
                                packet_loss_rate |-> PacketLossRate(u),
                                total_packets |-> u.total_packets,
                                seq |-> seq])]

\* record_packet after the loss detection; expected_seq has been stored
RecordLatency(t, offset_ms, seq, phone_ts_ms, server_ts_us) ==
    LET latency_us == LatencyUs(offset_ms, phone_ts_ms, server_ts_us)
        pushed == Append(t.samples, latency_us)
        samples == IF Len(pushed) > t.max_samples THEN Tail(pushed) ELSE pushed
        u == [t EXCEPT
                !.min_latency = IF ~t.min_latency.some \/ latency_us < t.min_latency.value
                                THEN Some(latency_us) ELSE @,
                !.max_latency = IF ~t.max_latency.some \/ latency_us > t.max_latency.value
                                THEN Some(latency_us) ELSE @,
                !.samples = samples]
    IN IF latency_us < 0
       THEN [tracker |-> t, returned |-> None]
       ELSE [tracker |-> u,
             returned |-> Some([current_latency_us |-> latency_us,
                                avg_latency_us |-> IF samples = <<>> THEN 0
                                                   ELSE SumSeq(samples) \div Len(samples),
                                min_latency_us |-> u.min_latency.value,
                                max_latency_us |-> u.max_latency.value,
                                packet_loss_rate |-> PacketLossRate(u),
                                total_packets |-> u.total_packets,
                                seq |-> seq])]

\* record_packet.  seq + 1 overflows for the largest seq: a build with
\* overflow checks panics there (the Mutex guard is dropped while panicking,
\* which poisons the Mutex), any other build wraps to 0.
RecordPacket(t, offset_ms, seq, phone_ts_ms, server_ts_us, checks) ==
    LET counted == CountPacket(t, seq)
    IN IF seq + 1 = SeqModulus /\ checks
       THEN [tracker |-> [counted EXCEPT !.poisoned = TRUE], returned |-> None,
             panicked |-> TRUE]
       ELSE LET r == RecordLatency([counted EXCEPT !.expected_seq = (seq + 1) % SeqModulus],
                                   offset_ms, seq, phone_ts_ms, server_ts_us)
            IN [tracker |-> r.tracker, returned |-> r.returned, panicked |-> FALSE]

\* the arguments and the outcome of a record_packet call
LatencyCall(offset_ms, seq, phone_ts_ms, server_ts_us, r) ==
    [called |-> TRUE, offset_ms |-> offset_ms, seq |-> seq, phone_ts_ms |-> phone_ts_ms,
     server_ts_us |-> server_ts_us, returned |-> r.returned, panicked |-> r.panicked]

NoCall == [called |-> FALSE, panicked |-> FALSE, returned |-> None]

\* ---- a caller of the tracker: tracker.lock() and record_packet
RecordPacketCall(seq, phone_ts_ms, server_ts_us) ==
    /\ ~tracker.poisoned
    /\ tracker.total_packets < MaxPackets
    /\ LET r == RecordPacket(tracker, clock_offset_ms, seq, phone_ts_ms, server_ts_us,
                             overflow_checks)
       IN /\ tracker' = r.tracker
          /\ latency_data' = LatencyCall(clock_offset_ms, seq, phone_ts_ms, server_ts_us, r)
    /\ seq_log' = Append(seq_log, seq)
    /\ UNCHANGED <<overflow_checks, clock_offset_ms>>

\* TouchServer::set_clock_offset / RealtimeLatencyTracker::set_clock_offset
SetClockOffset(offset_ms) ==
    /\ ~tracker.poisoned
    /\ clock_offset_ms' = offset_ms
    /\ UNCHANGED trackerVars

\* TouchServer::reset_latency_stats / RealtimeLatencyTracker::reset
ResetLatencyStats ==
    /\ ~tracker.poisoned
    /\ tracker' = TrackerReset(tracker)
    /\ seq_log' = <<>>
    /\ UNCHANGED <<latency_data, overflow_checks, clock_offset_ms>>

(***************************************************************************)
(*            discover_service.rs: the admission TCP server                *)
(***************************************************************************)
MaxAdmConns == 2
MaxChecksum == 1
MaxErrorCode == 2
MaxTime == 1

AdmConns == 1..MaxAdmConns
IPs == {"10.0.0.7", "10.0.0.8"}
DeviceNames == {"phone"}
Checksums == 0..MaxChecksum
Times == 0..MaxTime
ErrorCodeNames == {"HelloCheckSumMismatch", "RepeatedlyAddingDevices"}
\* the enum's numbering is not part of the sources: any two distinct values
ErrorCodeValues ==
    {e \in [ErrorCodeNames -> 0..MaxErrorCode] :
        e["HelloCheckSumMismatch"] # e["RepeatedlyAddingDevices"]}

Device(name, ip, width, height) ==
    [name |-> name, ip |-> ip, width |-> width, height |-> height]

Reject(reason) == [type |-> "Reject", reason |-> reason]

Welcome(cert_der, ts_ms) == [type |-> "Welcome", cert_der |-> cert_der, ts_ms |-> ts_ms]

DiscoverValidations ==
    [type : {"DiscoverValidation"}, checksum : Checksums, device_name : DeviceNames,
     width : {1080}, height : {2400}]

\* what receive_message can return on the admission socket
AdmissionPayloads ==
    DiscoverValidations \cup {[type |-> "HeartBeat"], [type |-> "Exit"]}

AdmissionReceived ==
    {[ok |-> FALSE]} \cup {[ok |-> TRUE, payload |-> p] : p \in AdmissionPayloads}

\* a handler that admits a good checksum without looking at the map
DiscoverValidationHandlerNoDuplicateCheck(dv, ip, seed_sum, devices, codes, now) ==
    IF dv.checksum = seed_sum
    THEN [ok |-> TRUE, sent |-> << Welcome("login_public_key", now) >>,
          device |-> Device(dv.device_name, ip, dv.width, dv.height)]
    ELSE [ok |-> FALSE, sent |-> << Reject(codes["HelloCheckSumMismatch"]) >>]

\* a handler that answers a wrong checksum with the other error code
DiscoverValidationHandlerWrongCode(dv, ip, seed_sum, devices, codes, now) ==
    IF dv.checksum = seed_sum
    THEN IF ip \in DOMAIN devices
         THEN [ok |-> FALSE, sent |-> <<>>]
         ELSE [ok |-> TRUE, sent |-> << Welcome("login_public_key", now) >>,
               device |-> Device(dv.device_name, ip, dv.width, dv.height)]
    ELSE [ok |-> FALSE, sent |-> << Reject(codes["RepeatedlyAddingDevices"]) >>]

\* discover_validation_handler: the frames it writes and what it returns.
\* The Reject for a repeated device is built and handed to send_message, but
\* the future is dropped without being awaited: nothing is written.
DiscoverValidationHandler(dv, ip, seed_sum, devices, codes, now) ==
    IF dv.checksum = seed_sum
    THEN IF ip \in DOMAIN devices
         THEN [ok |-> FALSE, sent |-> <<>>]
         ELSE [ok |-> TRUE, sent |-> << Welcome("login_public_key", now) >>,
               device |-> Device(dv.device_name, ip, dv.width, dv.height)]
    ELSE [ok |-> FALSE, sent |-> << Reject(codes["HelloCheckSumMismatch"]) >>]

\* a handle_client_connection that answers every frame it cannot admit
HandleClientConnectionResultRejectAll(received, ip, seed_sum, devices, codes, now) ==
    IF ~received.ok THEN [ok |-> FALSE, sent |-> <<>>]
    ELSE IF received.payload.type = "DiscoverValidation"
    THEN LET r == DiscoverValidationHandler(received.payload, ip, seed_sum,
                                            devices, codes, now)
         IN IF r.ok THEN r
            ELSE [ok |-> FALSE, sent |-> r.sent \o << Reject(1) >>]
    ELSE [ok |-> FALSE, sent |-> << Reject(1) >>]

\* handle_client_connection, from the received frame to its return
HandleClientConnectionResult(received, ip, seed_sum, devices, codes, now) ==
    IF ~received.ok THEN [ok |-> FALSE, sent |-> <<>>]
    ELSE IF received.payload.type = "DiscoverValidation"
    THEN LET r == DiscoverValidationHandler(received.payload, ip, seed_sum,
                                            devices, codes, now)
         IN IF r.ok THEN r
            ELSE [ok |-> FALSE, sent |-> r.sent \o << Reject(1) >>]
    ELSE [ok |-> FALSE, sent |-> <<>>]

NoFrame == [ok |-> FALSE]

AdmInit == [pc |-> "idle", addr |-> "", received |-> NoFrame, replies |-> <<>>,
            present |-> FALSE, device |-> NoFrame, recorded |-> FALSE]

\* start_confirm_server: listener.accept() returns and the handler task is spawned
AcceptClient(c, ip) ==
    /\ adm[c].pc = "idle"
    /\ \A b \in AdmConns : b < c => adm[b].pc # "idle"
    /\ adm' = [adm EXCEPT ![c].pc = "accepted", ![c].addr = ip]
    /\ UNCHANGED <<callbacks, ErrorCode, seed_checksum, mapVars, driverVars, dataVars, serverVars>>

\* the spawned task runs handle_client_connection to its return; the map is
\* read under its mutex inside discover_validation_handler
HandleClientConnection(c, received, now) ==
    /\ adm[c].pc = "accepted"
    /\ LET r == HandleClientConnectionResult(received, adm[c].addr, seed_checksum,
                                             listening_device, ErrorCode, now)
       IN adm' = [adm EXCEPT
                    ![c].pc = IF r.ok THEN "validated" ELSE "closed",
                    ![c].received = received,
                    ![c].replies = @ \o r.sent,
                    ![c].present = adm[c].addr \in DOMAIN listening_device,
                    ![c].device = IF r.ok THEN r.device ELSE NoFrame]
    /\ UNCHANGED <<callbacks, ErrorCode, seed_checksum, mapVars, driverVars, dataVars, serverVars>>

\* the spawned task after Ok(dev): lock the map, insert, fire the callback
RecordDevice(c) ==
    /\ adm[c].pc = "validated"
    /\ listening_device' = MapInsert(listening_device, adm[c].addr, adm[c].device)
    /\ insertedBy' = MapInsert(insertedBy, adm[c].addr, 0)
    /\ callbacks' = Append(callbacks,
                           [conn |-> c, device |-> listening_device'[adm[c].addr],
                            devices |-> {listening_device'[k] : k \in DOMAIN listening_device'}])
    /\ adm' = [adm EXCEPT ![c].pc = "closed", ![c].recorded = TRUE]
    /\ UNCHANGED <<ErrorCode, seed_checksum, driverVars, dataVars, serverVars>>

(***************************************************************************)
(*     touch_server.rs: shutdown watch, workers, connections, close()      *)
(*                                                                         *)
(* The watch channel holds one value.  Each receiver remembers the version *)
(* it has seen; the model keeps, per receiver, whether the channel's       *)
(* version differs from it (changed).  subscribe() gives a receiver that   *)
(* has seen the current version, clone() copies the receiver's, changed()  *)
(* completes once the versions differ and marks the current one seen, and  *)
(* borrow() reads the value then in the channel.  A changed() that         *)
(* completes and the borrow() that follows it are one step: a value sent   *)
(* in between is the one borrowed, and wakes the receiver again.           *)
(***************************************************************************)
MaxConns == 2

Conns == 1..MaxConns

ProcesserStop(t) == [kind |-> "ProcesserStop", proc |-> t]

ConnectionClose(id) == [kind |-> "ConnectionClose", id |-> id]

Empty == [kind |-> "Empty"]

\* the three sends of TouchServer::close, in order
CloseSends == <<ProcesserStop("Connection"), ProcesserStop("Touch"), ProcesserStop("Latency")>>

\* the positions at which a task holds a receiver of the watch
Watching == {"select", "handshake", "stream"}

\* watch::Sender::send, as seen by the task r
Notified(r) == IF r.pc \in Watching THEN [r EXCEPT !.changed = TRUE] ELSE r

\* frames a client sends on a stream
RegisterDevices ==
    [type : {"RegisterDevice"}, device_name : DeviceNames, ip : IPs \cup {"not-an-ip"},
     width : {1080}, height : {2400}, send_ts : Times]

\* frames that leave the maps and the tracker alone
ControlPayloads == {[type |-> "Exit"], [type |-> "HeartBeat"]}

StreamPayloads == RegisterDevices \cup ControlPayloads

WorkerInit == [pc |-> "none", ip |-> "", changed |-> FALSE, closed |-> FALSE,
               reason |-> "", done |-> FALSE]

\* the write lock of the connections map is held across awaits only by the
\* acceptor, while it drains the map and waits for the workers
ConnectionsLockFree == acceptor.pc # "drain"

\* ---- TouchServer::close: one of its three sends
CloseSend ==
    /\ closePc < Len(CloseSends)
    /\ shutdown' = CloseSends[closePc + 1]
    /\ closePc' = closePc + 1
    /\ touchProc' = Notified(touchProc)
    /\ latencyProc' = Notified(latencyProc)
    /\ acceptor' = Notified(acceptor)
    /\ worker' = [c \in Conns |-> Notified(worker[c])]
    /\ UNCHANGED <<connections, clock_offset_ms, registered, mapVars, admVars, driverVars, dataVars>>

\* ---- a holder of shutdown_tx broadcasts ConnectionClose(id)
SendConnectionClose(id) ==
    /\ shutdown' = ConnectionClose(id)
    /\ touchProc' = Notified(touchProc)
    /\ latencyProc' = Notified(latencyProc)
    /\ acceptor' = Notified(acceptor)
    /\ worker' = [c \in Conns |-> Notified(worker[c])]
    /\ UNCHANGED <<closePc, connections, clock_offset_ms, registered, mapVars, admVars,
                   driverVars, dataVars>>

\* ---- touch_event_processor
\* the task starts: subscribe()
TouchStart ==
    /\ touchProc.pc = "spawned"
    /\ touchProc' = [pc |-> "select", changed |-> FALSE]
    /\ UNCHANGED <<shutdown, closePc, latencyProc, acceptor, connections, worker,
                   clock_offset_ms, registered, mapVars, admVars, driverVars, dataVars>>

\* what a long-lived worker does when changed() completes: borrow the value
\* now in the channel and stop when it is the worker's own tag
ProcesserChanged(value, own) ==
    [pc |-> IF value = ProcesserStop(own) THEN "done" ELSE "select", changed |-> FALSE]

TouchChanged ==
    /\ touchProc.pc = "select"
    /\ touchProc.changed
    /\ touchProc' = ProcesserChanged(shutdown, "Touch")
    /\ UNCHANGED <<shutdown, closePc, latencyProc, acceptor, connections, worker,
                   clock_offset_ms, registered, mapVars, admVars, driverVars, dataVars>>

\* a channel that hands out its newest entry first
RecvNewest(queue) ==
    [entry |-> queue[Len(queue)], rest |-> SubSeq(queue, 1, Len(queue) - 1)]

\* UnboundedReceiver::recv on a channel that is not empty: the oldest entry
Recv(queue) == [entry |-> Head(queue), rest |-> Tail(queue)]

\* the TuneSetting arm: set_invert_x, set_invert_y, set_sensitivity
ApplyTuneSetting(d, tune_setting) ==
    [d EXCEPT !.invert_x = tune_setting.invert_x,
              !.invert_y = tune_setting.invert_y,
              !.sensitivity = tune_setting.sensitivity]

\* the event branch of the select: rx.recv() gives the oldest event of the
\* channel, which goes to the driver
TouchRecv ==
    /\ touchProc.pc = "select"
    /\ touch_events # <<>>
    /\ LET entry == Recv(touch_events).entry
       IN /\ touch_events' = Recv(touch_events).rest
          /\ emit_log' = Append(emit_log, entry)
          /\ IF entry.event.kind = "TouchPoint"
             THEN CallEmitMultitouch(<<entry.event.touch_point>>)
             ELSE /\ driver' = ApplyTuneSetting(driver, entry.event.tune_setting)
                  /\ UNCHANGED <<emitted, emitVars>>
    /\ UNCHANGED <<driverWork, enqueued, trackerVars, serverVars, mapVars, admVars, hostVars>>

\* ---- latency_handler
LatencyStart ==
    /\ latencyProc.pc = "spawned"
    /\ latencyProc' = [pc |-> "select", changed |-> FALSE]
    /\ UNCHANGED <<shutdown, closePc, touchProc, acceptor, connections, worker,
                   clock_offset_ms, registered, mapVars, admVars, driverVars, dataVars>>

LatencyChanged ==
    /\ latencyProc.pc = "select"
    /\ latencyProc.changed
    /\ latencyProc' = ProcesserChanged(shutdown, "Latency")
    /\ UNCHANGED <<shutdown, closePc, touchProc, acceptor, connections, worker,
                   clock_offset_ms, registered, mapVars, admVars, driverVars, dataVars>>

\* ---- connection_handler (the connection acceptor)
Perms(S) ==
    {q \in [1..Cardinality(S) -> S] : \A i, j \in 1..Cardinality(S) : q[i] = q[j] => i = j}

\* the task starts: the first loop round subscribes
AcceptorStart ==
    /\ acceptor.pc = "spawned"
    /\ acceptor' = [acceptor EXCEPT !.pc = "select", !.changed = FALSE]
    /\ UNCHANGED <<shutdown, closePc, touchProc, latencyProc, connections, worker,
                   clock_offset_ms, registered, mapVars, admVars, driverVars, dataVars>>

\* Connection::close: the first close of a connection gives the reason
CloseConnection(w, reason) ==
    IF w.closed THEN w ELSE [w EXCEPT !.closed = TRUE, !.reason = reason]

\* what the shutdown branch does with the borrowed value: on the acceptor's
\* own tag it goes on to close the connections, on any other value it goes
\* round the loop, which subscribes anew
AcceptorObserves(value) == value = ProcesserStop("Connection")

\* the shutdown branch of the select; on the own tag every connection of the
\* map is closed with reason "shutdown" (under the read lock, then dropped)
AcceptorChanged ==
    /\ acceptor.pc = "select"
    /\ acceptor.changed
    /\ IF AcceptorObserves(shutdown)
       THEN /\ worker' = [c \in Conns |->
                            IF c \in connections
                            THEN CloseConnection(worker[c], "shutdown") ELSE worker[c]]
            /\ acceptor' = [acceptor EXCEPT !.pc = "closing", !.changed = FALSE]
       ELSE /\ acceptor' = [acceptor EXCEPT !.changed = FALSE]
            /\ UNCHANGED worker
    /\ UNCHANGED <<shutdown, closePc, touchProc, latencyProc, connections,
                   clock_offset_ms, registered, mapVars, admVars, driverVars, dataVars>>

\* connections.write().await, then drain(): the write lock is taken and kept
AcceptorDrain ==
    /\ acceptor.pc = "closing"
    /\ \E order \in Perms(connections) :
          acceptor' = [acceptor EXCEPT !.pc = "drain", !.drain = order]
    /\ connections' = {}
    /\ UNCHANGED <<shutdown, closePc, touchProc, latencyProc, worker,
                   clock_offset_ms, registered, mapVars, admVars, driverVars, dataVars>>

\* info.task_handle.await completes once that worker's task has ended
AcceptorJoin ==
    /\ acceptor.pc = "drain"
    /\ acceptor.drain # <<>>
    /\ worker[Head(acceptor.drain)].pc \in {"exited", "panicked"}
    /\ acceptor' = [acceptor EXCEPT !.drain = Tail(@)]
    /\ UNCHANGED <<shutdown, closePc, touchProc, latencyProc, connections, worker,
                   clock_offset_ms, registered, mapVars, admVars, driverVars, dataVars>>

\* every handle awaited: the write lock is dropped and the loop is left
AcceptorBreak ==
    /\ acceptor.pc = "drain"
    /\ acceptor.drain = <<>>
    /\ acceptor' = [acceptor EXCEPT !.pc = "done"]
    /\ UNCHANGED <<shutdown, closePc, touchProc, latencyProc, connections, worker,
                   clock_offset_ms, registered, mapVars, admVars, driverVars, dataVars>>

\* the accept branch of the select: endpoint.accept() yields an incoming connection
AcceptIncoming ==
    /\ acceptor.pc = "select"
    /\ \E c \in Conns : worker[c].pc = "none"
    /\ acceptor' = [acceptor EXCEPT !.pc = "handshake"]
    /\ UNCHANGED <<shutdown, closePc, touchProc, latencyProc, connections, worker,
                   clock_offset_ms, registered, mapVars, admVars, driverVars, dataVars>>

\* incoming.await gives Ok(conn): the worker task is spawned and takes the
\* watch receiver of this loop round
HandshakeOk(c, ip) ==
    /\ acceptor.pc = "handshake"
    /\ worker[c].pc = "none"
    /\ \A b \in Conns : b < c => worker[b].pc # "none"
    /\ worker' = [worker EXCEPT ![c] = [WorkerInit EXCEPT !.pc = "select", !.ip = ip,
                                                          !.changed = acceptor.changed]]
    /\ acceptor' = [acceptor EXCEPT !.pc = "insert", !.conn = c, !.changed = FALSE]
    /\ UNCHANGED <<shutdown, closePc, touchProc, latencyProc, connections,
                   clock_offset_ms, registered, mapVars, admVars, driverVars, dataVars>>

\* incoming.await gives Err: logged, next loop round (a new subscribe)
HandshakeErr ==
    /\ acceptor.pc = "handshake"
    /\ acceptor' = [acceptor EXCEPT !.pc = "select", !.changed = FALSE]
    /\ UNCHANGED <<shutdown, closePc, touchProc, latencyProc, connections, worker,
                   clock_offset_ms, registered, mapVars, admVars, driverVars, dataVars>>

\* connections.write().await.insert(conn_id, conn_info), next loop round (a
\* new subscribe)
AcceptorInsert ==
    /\ acceptor.pc = "insert"
    /\ ConnectionsLockFree
    /\ connections' = connections \cup {acceptor.conn}
    /\ acceptor' = [acceptor EXCEPT !.pc = "select", !.conn = 0, !.changed = FALSE]
    /\ UNCHANGED <<shutdown, closePc, touchProc, latencyProc, worker,
                   clock_offset_ms, registered, mapVars, admVars, driverVars, dataVars>>

\* ---- ConnectedExector: the worker of one connection
\* start() returns: the executor and its receiver are dropped
Returned(w) == [w EXCEPT !.pc = "remove_conn", !.changed = FALSE]

\* the stop branch of the select in start()
WorkerChanged(c) ==
    /\ worker[c].pc = "select"
    /\ worker[c].changed
    /\ worker' = [worker EXCEPT ![c] =
                     IF shutdown = ConnectionClose(c)
                     THEN Returned(CloseConnection(@, ""))
                     ELSE [@ EXCEPT !.changed = FALSE]]
    /\ UNCHANGED <<shutdown, closePc, touchProc, latencyProc, acceptor, connections,
                   clock_offset_ms, registered, mapVars, admVars, driverVars, dataVars>>

\* accept_bi() gives a stream: handle_stream starts its frame loop
WorkerAcceptBi(c) ==
    /\ worker[c].pc = "select"
    /\ ~worker[c].closed
    /\ worker' = [worker EXCEPT ![c].pc = "stream"]
    /\ UNCHANGED <<shutdown, closePc, touchProc, latencyProc, acceptor, connections,
                   clock_offset_ms, registered, mapVars, admVars, driverVars, dataVars>>

\* accept_bi() fails on a closed connection: start() returns the error
WorkerAcceptErr(c) ==
    /\ worker[c].pc = "select"
    /\ worker[c].closed
    /\ worker' = [worker EXCEPT ![c] = Returned(@)]
    /\ UNCHANGED <<shutdown, closePc, touchProc, latencyProc, acceptor, connections,
                   clock_offset_ms, registered, mapVars, admVars, driverVars, dataVars>>

\* the RegisterDevice arm of handle_message computes the offset and stores it
RegisterOffset(old_offset, client_send_ts, server_recv_ts_ms) ==
    client_send_ts - server_recv_ts_ms

\* the key under which the RegisterDevice arm inserts the device
RegisterKey(message, conn_ip) == message.ip

\* TouchEventType of the proto, and any other i32 ("Invalid")
TouchEventTypes == {"Unspecified", "Down", "Move", "Up", "Cancel", "Invalid"}

\* the body of the loop over touch_packet.pointers: the TouchPoint sent for
\* one pointer, or None when the pointer is skipped
PointerToTouchPoint(pointer) ==
    LET tracking_id == IF pointer.event_type # "Up" THEN pointer.id ELSE -1
    IN CASE pointer.event_type \in {"Down", "Move"} ->
              Some([slot |-> pointer.id, tracking_id |-> tracking_id,
                    x |-> pointer.abs_x, y |-> pointer.abs_y,
                    status |-> pointer.event_type])
         [] pointer.event_type \in {"Up", "Cancel"} ->
              Some([slot |-> pointer.id, tracking_id |-> tracking_id,
                    x |-> pointer.abs_x, y |-> pointer.abs_y, status |-> "Up"])
         [] OTHER -> None

TouchPointEvent(touch_point) == [kind |-> "TouchPoint", touch_point |-> touch_point]

TuneSettingEvent(tune_setting) == [kind |-> "TuneSetting", tune_setting |-> tune_setting]

\* touch_event_tx.send(event) by the worker of connection c; the entry keeps
\* where the event came from: the connection, its rank among the events of
\* that connection, and the pointer it was made from
RECURSIVE SendPointers(_, _, _, _)
SendPointers(queue, c, rank, pointers) ==
    IF pointers = <<>> THEN queue
    ELSE LET tp == PointerToTouchPoint(Head(pointers))
         IN IF tp.some
            THEN SendPointers(Append(queue, [from |-> c, rank |-> rank + 1,
                                             pointer |-> Head(pointers),
                                             event |-> TouchPointEvent(tp.value)]),
                              c, rank + 1, Tail(pointers))
            ELSE SendPointers(queue, c, rank, Tail(pointers))

\* the entries of queue sent by connection c, in queue order
RECURSIVE From(_, _)
From(queue, c) ==
    IF queue = <<>> THEN <<>>
    ELSE IF Head(queue).from = c THEN <<Head(queue)>> \o From(Tail(queue), c)
    ELSE From(Tail(queue), c)

\* handle_message on one received frame; now_ms is the server's clock
HandleMessage(c, message, now_ms) ==
    CASE message.type = "RegisterDevice" ->
           IF message.ip \notin IPs
           THEN \* IpAddr::from_str fails: the error ends handle_stream and start()
                /\ worker' = [worker EXCEPT ![c] = Returned(@)]
                /\ UNCHANGED <<clock_offset_ms, registered, mapVars, pipeVars, trackerVars>>
           ELSE /\ listening_device' =
                     MapInsert(listening_device, RegisterKey(message, worker[c].ip),
                               Device(message.device_name, message.ip,
                                      message.width, message.height))
                /\ insertedBy' = MapInsert(insertedBy, RegisterKey(message, worker[c].ip), c)
                /\ clock_offset_ms' = IF tracker.poisoned THEN clock_offset_ms
                                      ELSE RegisterOffset(clock_offset_ms, message.send_ts,
                                                          now_ms)
                /\ registered' = [registered EXCEPT ![c] = TRUE]
                /\ UNCHANGED <<worker, pipeVars, trackerVars>>
      [] message.type = "TouchPacket" ->
           LET r == RecordPacket(tracker, clock_offset_ms, message.seq, message.ts_ms,
                                 now_ms * 1000, overflow_checks)
               sent == SendPointers(touch_events, c, enqueued[c], message.pointers)
           IN /\ IF tracker.poisoned
                 THEN UNCHANGED <<tracker, latency_data, seq_log>>
                 ELSE /\ tracker' = r.tracker
                      /\ latency_data' = LatencyCall(clock_offset_ms, message.seq,
                                                     message.ts_ms, now_ms * 1000, r)
                      /\ seq_log' = Append(seq_log, message.seq)
              /\ IF ~tracker.poisoned /\ r.panicked
                 THEN \* the panic unwinds the worker task: nothing after it runs
                      /\ worker' = [worker EXCEPT ![c].pc = "panicked", ![c].changed = FALSE]
                      /\ UNCHANGED <<touch_events, enqueued>>
                 ELSE /\ touch_events' = sent
                      /\ enqueued' = [enqueued EXCEPT ![c] = Len(From(sent, c))
                                                               - Len(From(touch_events, c))
                                                               + @]
                      /\ UNCHANGED worker
              /\ UNCHANGED <<clock_offset_ms, registered, mapVars, emit_log, overflow_checks>>
      [] message.type = "SettingRequest" ->
           /\ IF message.value.some
              THEN /\ touch_events' =
                        Append(touch_events,
                               [from |-> c, rank |-> enqueued[c] + 1, pointer |-> None,
                                event |-> TuneSettingEvent(message.value.value)])
                   /\ enqueued' = [enqueued EXCEPT ![c] = @ + 1]
              ELSE UNCHANGED <<touch_events, enqueued>>
           /\ UNCHANGED <<worker, clock_offset_ms, registered, mapVars, emit_log, trackerVars>>
      [] message.type = "Exit" ->
           \* conn.close, Ok(false): done is set, both loops are left
           /\ worker' = [worker EXCEPT ![c] =
                            [Returned(CloseConnection(@, "")) EXCEPT !.done = TRUE]]
           /\ UNCHANGED <<clock_offset_ms, registered, mapVars, pipeVars, trackerVars>>
      [] OTHER ->
           /\ UNCHANGED <<worker, clock_offset_ms, registered, mapVars, pipeVars, trackerVars>>

\* receive_message gives a frame inside handle_stream
WorkerReceive(c, message, now_ms) ==
    /\ worker[c].pc = "stream"
    /\ ~worker[c].closed
    /\ HandleMessage(c, message, now_ms)
    /\ UNCHANGED <<shutdown, closePc, touchProc, latencyProc, acceptor, connections,
                   admVars, driverVars, emitVars, hostVars>>

\* receive_message fails (end of the stream, a frame that does not decode, a
\* closed connection): the while-let ends, start() goes round its loop
WorkerReceiveErr(c) ==
    /\ worker[c].pc = "stream"
    /\ worker' = [worker EXCEPT ![c].pc = "select"]
    /\ UNCHANGED <<shutdown, closePc, touchProc, latencyProc, acceptor, connections,
                   clock_offset_ms, registered, mapVars, admVars, driverVars, dataVars>>

\* the peer closes the connection, or the transport times out
PeerClose(c) ==
    /\ worker[c].pc \in {"select", "stream"}
    /\ ~worker[c].closed
    /\ worker' = [worker EXCEPT ![c] = CloseConnection(@, "peer")]
    /\ UNCHANGED <<shutdown, closePc, touchProc, latencyProc, acceptor, connections,
                   clock_offset_ms, registered, mapVars, admVars, driverVars, dataVars>>

\* after start(): connection_map.write().await.remove(&conn_id)
WorkerRemoveConn(c) ==
    /\ worker[c].pc = "remove_conn"
    /\ ConnectionsLockFree
    /\ connections' = connections \ {c}
    /\ worker' = [worker EXCEPT ![c].pc = "remove_device"]
    /\ UNCHANGED <<shutdown, closePc, touchProc, latencyProc, acceptor,
                   clock_offset_ms, registered, mapVars, admVars, driverVars, dataVars>>

\* connected_device.lock().await.remove(&conn_ip)
RemoveConnectedDevice(conn_ip) ==
    /\ listening_device' = MapRemove(listening_device, conn_ip)
    /\ insertedBy' = MapRemove(insertedBy, conn_ip)

\* the last statement of the worker task; the task ends
WorkerRemoveDevice(c) ==
    /\ worker[c].pc = "remove_device"
    /\ RemoveConnectedDevice(worker[c].ip)
    /\ worker' = [worker EXCEPT ![c].pc = "exited"]
    /\ UNCHANGED <<shutdown, closePc, touchProc, latencyProc, acceptor, connections,
                   clock_offset_ms, registered, admVars, driverVars, dataVars>>

\* in the admission specification: a connection worker of the touch server,
\* connected from conn_ip, ends
TransportWorkerExit(conn_ip) ==
    /\ conn_ip \in DOMAIN listening_device
    /\ RemoveConnectedDevice(conn_ip)
    /\ UNCHANGED <<admVars, driverVars, dataVars, serverVars>>

(***************************************************************************)
(*            codec.rs: the envelope, the length prefix, ProtoStream       *)
(*                                                                         *)
(* A byte is a number in 0..255 and a buffer a sequence of bytes.  The     *)
(* message types are generated from the proto schema by prost; the schema  *)
(* is taken from the wire format of the design: fields are numbered in     *)
(* the order listed, integers travel as base-128 varints, byte strings     *)
(* and nested messages as a length and the bytes, a field holding its      *)
(* default (0, empty, absent) is not written, and decoding starts from     *)
(* the defaults.  Integers stay non-negative and below 2^32.               *)
(***************************************************************************)
\* field lists: <<name, kind, field number>>
Schema ==
    [Welcome |-> << <<"cert_der", "bytes", 1>>, <<"ts_ms", "varint", 2>> >>,
     Reject |-> << <<"reason", "varint", 1>> >>,
     HeartBeat |-> << >>,
     DiscoverValidation |-> << <<"checksum", "varint", 1>>, <<"send_ts", "varint", 2>>,
                               <<"device_name", "bytes", 3>>, <<"random_key", "bytes", 4>>,
                               <<"width", "varint", 5>>, <<"height", "varint", 6>> >>,
     RegisterDevice |-> << <<"device_name", "bytes", 1>>, <<"ip", "bytes", 2>>,
                           <<"width", "varint", 3>>, <<"height", "varint", 4>>,
                           <<"send_ts", "varint", 5>> >>,
     TouchPacket |-> << <<"seq", "varint", 1>>, <<"ts_ms", "varint", 2>>,
                        <<"pointers", "Pointer", 3>> >>,
     SettingRequest |-> << <<"value", "TuneSetting", 1>> >>,
     Exit |-> << <<"ts_ms", "varint", 1>> >>,
     Pointer |-> << <<"id", "varint", 1>>, <<"event_type", "varint", 2>>,
                    <<"abs_x", "varint", 3>>, <<"abs_y", "varint", 4>> >>,
     TuneSetting |-> << <<"invert_x", "varint", 1>>, <<"invert_y", "varint", 2>>,
                        <<"sensitivity", "varint", 3>> >>]

\* the oneof of the Wrapper: the field number of each payload variant
PayloadNumber ==
    [Welcome |-> 1, Reject |-> 2, HeartBeat |-> 3, DiscoverValidation |-> 4,
     RegisterDevice |-> 5, TouchPacket |-> 6, SettingRequest |-> 7, Exit |-> 8]

PayloadVariants == DOMAIN PayloadNumber

\* repeated message fields, and optional message fields
RepeatedKinds == {"Pointer"}
OptionalKinds == {"TuneSetting"}

Ok(v) == [kind |-> "Ok", value |-> v]

Err(e) == [kind |-> "Err", error |-> e]

RECURSIVE EncodeVarint(_)
EncodeVarint(n) ==
    IF n >= 128 THEN <<(n % 128) + 128>> \o EncodeVarint(n \div 128) ELSE <<n>>

\* a length-delimited field: key, length, bytes
Delimited(number, bytes) == <<number * 8 + 2>> \o EncodeVarint(Len(bytes)) \o bytes

RECURSIVE EncodeFields(_, _, _)
RECURSIVE EncodeRepeated(_, _, _)
\* prost's Message::encode_to_vec on a message of the named type
EncodeToVec(msg, type) == EncodeFields(msg, Schema[type], 1)

EncodeRepeated(items, kind, number) ==
    IF items = <<>> THEN <<>>
    ELSE Delimited(number, EncodeToVec(Head(items), kind))
             \o EncodeRepeated(Tail(items), kind, number)

EncodeFields(msg, schema, i) ==
    IF i > Len(schema) THEN <<>>
    ELSE LET name == schema[i][1]
             kind == schema[i][2]
             number == schema[i][3]
             v == msg[name]
             field ==
                 CASE kind = "varint" ->
                        IF v = 0 THEN <<>> ELSE <<number * 8>> \o EncodeVarint(v)
                   [] kind = "bytes" ->
                        IF v = <<>> THEN <<>> ELSE Delimited(number, v)
                   [] kind \in RepeatedKinds -> EncodeRepeated(v, kind, number)
                   [] OTHER ->
                        IF v.some THEN Delimited(number, EncodeToVec(v.value, kind))
                        ELSE <<>>
         IN field \o EncodeFields(msg, schema, i + 1)

\* prost's decode_varint at position at: [ok, value, next]; a value of 2^31
\* or more is beyond the integers of the model and is refused
RECURSIVE DecodeVarint(_, _, _, _)
DecodeVarint(buf, at, result, scale) ==
    IF at > Len(buf) \/ scale > 2^28 \/ (scale = 2^28 /\ buf[at] % 128 >= 8)
    THEN [ok |-> FALSE]
    ELSE LET r == result + (buf[at] % 128) * scale
         IN IF buf[at] < 128 THEN [ok |-> TRUE, value |-> r, next |-> at + 1]
            ELSE DecodeVarint(buf, at + 1, r, scale * 128)

\* the message of a type with every field at its default
DefaultOf(kind) ==
    CASE kind = "varint" -> 0
      [] kind = "bytes" -> <<>>
      [] kind \in RepeatedKinds -> <<>>
      [] OTHER -> None

Default(type) ==
    [name \in {Schema[type][i][1] : i \in 1..Len(Schema[type])} |->
        DefaultOf(Schema[type][CHOOSE i \in 1..Len(Schema[type]) :
                                   Schema[type][i][1] = name][2])]

\* the fields of a type that carry the field number
FieldsNumbered(type, number) ==
    {i \in 1..Len(Schema[type]) : Schema[type][i][3] = number}

\* prost's merge of encoded fields into the message acc: [ok, value]
RECURSIVE MergeFields(_, _, _, _)
MergeFields(buf, at, type, acc) ==
    IF at > Len(buf) THEN [ok |-> TRUE, value |-> acc]
    ELSE
    LET key == DecodeVarint(buf, at, 0, 1)
    IN IF ~key.ok THEN [ok |-> FALSE]
       ELSE
       LET number == key.value \div 8
           wire == key.value % 8
           known == FieldsNumbered(type, number)
           field == CHOOSE f \in known : TRUE
           name == Schema[type][field][1]
           kind == Schema[type][field][2]
       IN CASE number = 0 -> [ok |-> FALSE]
            [] number # 0 /\ wire = 0 ->
                 LET v == DecodeVarint(buf, key.next, 0, 1)
                 IN IF ~v.ok THEN [ok |-> FALSE]
                    ELSE IF known = {} THEN MergeFields(buf, v.next, type, acc)
                    ELSE IF kind # "varint" THEN [ok |-> FALSE]
                    ELSE MergeFields(buf, v.next, type, [acc EXCEPT ![name] = v.value])
            [] number # 0 /\ wire = 2 ->
                 LET len == DecodeVarint(buf, key.next, 0, 1)
                 IN IF ~len.ok THEN [ok |-> FALSE]
                    ELSE IF len.next + len.value - 1 > Len(buf) THEN [ok |-> FALSE]
                    ELSE
                    LET body == SubSeq(buf, len.next, len.next + len.value - 1)
                        rest == len.next + len.value
                    IN IF known = {} THEN MergeFields(buf, rest, type, acc)
                       ELSE CASE kind = "varint" -> [ok |-> FALSE]
                              [] kind = "bytes" ->
                                   MergeFields(buf, rest, type, [acc EXCEPT ![name] = body])
                              [] kind \in RepeatedKinds ->
                                   LET sub == MergeFields(body, 1, kind, Default(kind))
                                   IN IF ~sub.ok THEN [ok |-> FALSE]
                                      ELSE MergeFields(buf, rest, type,
                                               [acc EXCEPT ![name] = Append(@, sub.value)])
                              [] OTHER ->
                                   LET sub == MergeFields(body, 1, kind,
                                                  IF acc[name].some THEN acc[name].value
                                                  ELSE Default(kind))
                                   IN IF ~sub.ok THEN [ok |-> FALSE]
                                      ELSE MergeFields(buf, rest, type,
                                               [acc EXCEPT ![name] = Some(sub.value)])
            [] number # 0 /\ wire \in {1, 5} ->
                 LET width == IF wire = 1 THEN 8 ELSE 4
                 IN IF known # {} \/ key.next + width - 1 > Len(buf) THEN [ok |-> FALSE]
                    ELSE MergeFields(buf, key.next + width, type, acc)
            [] OTHER -> [ok |-> FALSE]

\* a payload of the envelope: the variant and its fields
Payload(type, fields) == [type |-> type] @@ fields

\* Wrapper::decode: the oneof keeps the variant decoded last, unknown fields
\* are skipped; [ok, payload]
RECURSIVE WrapperDecode(_, _, _)
WrapperDecode(buf, at, payload) ==
    IF at > Len(buf) THEN [ok |-> TRUE, payload |-> payload]
    ELSE
    LET key == DecodeVarint(buf, at, 0, 1)
    IN IF ~key.ok THEN [ok |-> FALSE]
       ELSE
       LET number == key.value \div 8
           wire == key.value % 8
           variants == {t \in PayloadVariants : PayloadNumber[t] = number}
           type == CHOOSE t \in variants : TRUE
       IN CASE number = 0 -> [ok |-> FALSE]
            [] number # 0 /\ wire = 0 ->
                 LET v == DecodeVarint(buf, key.next, 0, 1)
                 IN IF ~v.ok \/ variants # {} THEN [ok |-> FALSE]
                    ELSE WrapperDecode(buf, v.next, payload)
            [] number # 0 /\ wire = 2 ->
                 LET len == DecodeVarint(buf, key.next, 0, 1)
                 IN IF ~len.ok THEN [ok |-> FALSE]
                    ELSE IF len.next + len.value - 1 > Len(buf) THEN [ok |-> FALSE]
                    ELSE
                    LET body == SubSeq(buf, len.next, len.next + len.value - 1)
                        rest == len.next + len.value
                        sub == MergeFields(body, 1, type,
                                   IF payload.some /\ payload.value.type = type
                                   THEN [name \in DOMAIN payload.value \ {"type"} |->
                                            payload.value[name]]
                                   ELSE Default(type))
                    IN IF variants = {} THEN WrapperDecode(buf, rest, payload)
                       ELSE IF ~sub.ok THEN [ok |-> FALSE]
                       ELSE WrapperDecode(buf, rest, Some(Payload(type, sub.value)))
            [] number # 0 /\ wire \in {1, 5} ->
                 LET width == IF wire = 1 THEN 8 ELSE 4
                 IN IF variants # {} \/ key.next + width - 1 > Len(buf) THEN [ok |-> FALSE]
                    ELSE WrapperDecode(buf, key.next + width, payload)
            [] OTHER -> [ok |-> FALSE]

\* ---- wrap: only five of the message types are recognised
Wrappable == {"Welcome", "Reject", "HeartBeat", "TouchPacket", "DiscoverValidation"}

\* Wrapper { payload: Some(..) }.encode_to_vec()
WrapperEncodeToVec(msg) == Delimited(PayloadNumber[msg.type], EncodeToVec(msg, msg.type))

Wrap(msg) ==
    IF msg.type \in Wrappable
    THEN Ok(WrapperEncodeToVec(msg))
    ELSE Err("unsupported message type")

\* ---- dewrap
Dewrap(buf) ==
    LET wrapper == WrapperDecode(buf, 1, None)
    IN IF ~wrapper.ok THEN Err("DecodeError")
       ELSE IF wrapper.payload.some THEN Ok(wrapper.payload.value)
       ELSE Err("The data payload is None")

\* ---- mod varint
\* the loop of encode_with_length_prefix on data.len() as u32
RECURSIVE LengthPrefix(_)
LengthPrefix(length) ==
    IF length >= 128 THEN <<(length % 128) + 128>> \o LengthPrefix(length \div 128)
    ELSE <<length>>

\* (data.len() as u32 is the length itself for every buffer below 2^32 bytes)
EncodeWithLengthPrefix(data) == LengthPrefix(Len(data)) \o data

\* What a read of the stream gives.  A reader holds the bytes that have
\* arrived and whether the peer has finished the stream (eof); a read past
\* the bytes that have arrived gives 0 bytes after eof and waits before it
\* ("Pending").  consumed counts the bytes taken from the reader.
ReadErr(e, consumed) == [kind |-> "Err", error |-> e, consumed |-> consumed]

Pending == [kind |-> "Pending"]

\* the loop of read_varint_async, about to read the byte at position at.  The
\* shift of a u32 by 35 on the sixth byte panics in a build with overflow
\* checks and is masked (and its result dropped by the error) without them.
\* The u32 result is kept as its low 31 bits (value) and its bit 31 (top);
\* the shift by 28 on the fifth byte drops the bits above bit 31.
RECURSIVE ReadVarintLoop(_, _, _, _, _)
ReadVarintLoop(r, at, result, shift, checks) ==
    IF at > Len(r.bytes)
    THEN IF r.eof
         THEN ReadErr("Unexpected end of stream while reading varint", at - 1)
         ELSE Pending
    ELSE LET byte == r.bytes[at]
             ored == IF shift < 28
                     THEN [value |-> result.value + (byte % 128) * 2^shift, top |-> 0]
                     ELSE [value |-> result.value + (byte % 8) * 2^shift,
                           top |-> (byte % 16) \div 8]
         IN IF shift >= 32 /\ checks THEN [kind |-> "Panic", consumed |-> at]
            ELSE IF shift > 28 THEN ReadErr("Varint too long (maximum 5 bytes)", at)
            ELSE IF byte < 128
            THEN [kind |-> "Ok", value |-> ored.value, top |-> ored.top, consumed |-> at]
            ELSE ReadVarintLoop(r, at + 1, ored, shift + 7, checks)

ReadVarintAsync(r, checks) == ReadVarintLoop(r, 1, [value |-> 0, top |-> 0], 0, checks)

\* comparisons of the u32 a varint read gave
IsZero(length) == length.top = 0 /\ length.value = 0

Exceeds(length, limit) == length.top = 1 \/ length.value > limit

\* read_exact_bytes_async after `from` bytes of the reader have been taken
ReadExactBytesAsync(r, from, length) ==
    IF Len(r.bytes) - from >= length
    THEN [kind |-> "Ok", value |-> SubSeq(r.bytes, from + 1, from + length),
          consumed |-> from + length]
    ELSE IF r.eof
    THEN ReadErr("Unexpected end of stream while reading message bytes", Len(r.bytes))
    ELSE Pending

\* the same reader, but a length of 4096 is refused
ReadMessageWithLengthPrefixBelow(r, checks) ==
    LET message_length == ReadVarintAsync(r, checks)
    IN IF message_length.kind # "Ok" THEN message_length
       ELSE IF IsZero(message_length) \/ Exceeds(message_length, 4095)
       THEN ReadErr("Invalid message length", message_length.consumed)
       ELSE ReadExactBytesAsync(r, message_length.consumed, message_length.value)

ReadMessageWithLengthPrefix(r, checks) ==
    LET message_length == ReadVarintAsync(r, checks)
    IN IF message_length.kind # "Ok" THEN message_length
       ELSE IF IsZero(message_length) \/ Exceeds(message_length, 4096)
       THEN ReadErr("Invalid message length", message_length.consumed)
       ELSE ReadExactBytesAsync(r, message_length.consumed, message_length.value)

\* ---- ProtoStream
\* receive_message: the frame, then dewrap
ReceiveMessage(r, checks) ==
    LET data == ReadMessageWithLengthPrefix(r, checks)
        response == Dewrap(data.value)
    IN IF data.kind # "Ok" THEN data
       ELSE IF response.kind = "Ok"
       THEN [kind |-> "Ok", value |-> response.value, consumed |-> data.consumed]
       ELSE ReadErr(response.error, data.consumed)

\* send_message: what is written to the writer, or the error of wrap
SendMessage(msg) ==
    LET data == Wrap(msg)
    IN IF data.kind = "Ok" THEN Ok(EncodeWithLengthPrefix(data.value)) ELSE data

\* ---- one ProtoStream and the peer at its other end
MaxFrames == 2

\* a call of send_message: the frame reaches the reader at the other end
SendMessageCall(msg) ==
    /\ ~reader.eof
    /\ reader.frames < MaxFrames
    /\ \E r \in {SendMessage(msg)} :
          /\ codec' = [op |-> "send", msg |-> msg, returned |-> r]
          /\ reader' = IF r.kind = "Ok"
                       THEN [reader EXCEPT !.bytes = @ \o r.value, !.frames = @ + 1]
                       ELSE reader
    /\ UNCHANGED <<frame_errors, orchVars>>

\* a peer of any make writes bytes of its own
PeerWrite(bytes) ==
    /\ ~reader.eof
    /\ reader.frames < MaxFrames
    /\ reader' = [reader EXCEPT !.bytes = @ \o bytes, !.frames = @ + 1]
    /\ UNCHANGED <<codec, frame_errors, orchVars>>

\* the peer finishes the stream
PeerFinish ==
    /\ ~reader.eof
    /\ reader' = [reader EXCEPT !.eof = TRUE]
    /\ UNCHANGED <<codec, frame_errors, orchVars>>

\* a call of receive_message that returns (or panics).  Both callers of the
\* crate stop reading a stream at its first error (handle_stream ends its
\* while-let, handle_client_connection reads one frame).
ReceiveMessageCall ==
    /\ ~reader.failed
    /\ \E r \in {ReceiveMessage(reader, overflow_checks)} :
          /\ r.kind # "Pending"
          /\ codec' = [op |-> "receive", returned |-> r]
          /\ reader' = [reader EXCEPT
                           !.bytes = SubSeq(@, r.consumed + 1, Len(@)),
                           !.failed = r.kind # "Ok"]
    /\ UNCHANGED <<frame_errors, orchVars>>

\* a call of encode_with_length_prefix on a buffer of `length` bytes, whose
\* result is written to the stream
EncodeWithLengthPrefixCall(length) ==
    /\ ~reader.eof
    /\ reader.frames < MaxFrames
    /\ \E r \in {EncodeWithLengthPrefix([i \in 1..length |-> 0])} :
          /\ codec' = [op |-> "encode", length |-> length, returned |-> r]
          /\ reader' = [reader EXCEPT !.bytes = @ \o r, !.frames = @ + 1]
    /\ UNCHANGED <<frame_errors, orchVars>>

\* a call of read_varint_async (read_varint on a blocking reader has the same
\* loop) that returns or panics
ReadVarintCall ==
    /\ ~reader.failed
    /\ \E r \in {ReadVarintAsync(reader, overflow_checks)} :
          /\ r.kind # "Pending"
          /\ codec' = [op |-> "read_varint", returned |-> r]
          /\ reader' = [reader EXCEPT
                           !.bytes = SubSeq(@, r.consumed + 1, Len(@)),
                           !.failed = r.kind # "Ok"]
    /\ UNCHANGED <<frame_errors, orchVars>>

(***************************************************************************)
(*     discover_service.rs: discover(), the admission server task, close() *)
(*     cli main.rs: the orchestrator                                       *)
(*                                                                         *)
(* discovery.stop_signal and discovery.mdns_daemon say whether the Option  *)
(* is Some; discovery.signalled says that the oneshot of the running task  *)
(* holds a value; discovery.server is the position of the task spawned by  *)
(* discover(), discovery.close the position of close().                    *)
(***************************************************************************)
MAX_RETRIES == 5

\* DiscoverService::new: no daemon, no stop signal, no task, close() not called
DiscoverServiceNew ==
    [stop_signal |-> FALSE, mdns_daemon |-> FALSE, signalled |-> FALSE,
     server |-> "none", close |-> "idle", retries |-> 0, attempts |-> 0,
     last |-> "", returned |-> None]

\* ---- discover(): the daemon is made, registered and stored, the task spawned
DiscoverCall(d) == [d EXCEPT !.mdns_daemon = TRUE, !.server = "spawned"]

Discover ==
    /\ ~discovery.mdns_daemon
    /\ discovery.server = "none"
    /\ discovery' = DiscoverCall(discovery)
    /\ UNCHANGED <<main, serverVars, besideHost>>

\* ---- start_confirm_server
\* oneshot::channel(), TcpListener::bind gives the listener
ServerBind ==
    /\ discovery.server = "spawned"
    /\ discovery' = [discovery EXCEPT !.server = "bound"]
    /\ UNCHANGED <<main, serverVars, besideHost>>

\* TcpListener::bind fails: the task returns the error
ServerBindErr ==
    /\ discovery.server = "spawned"
    /\ discovery' = [discovery EXCEPT !.server = "failed"]
    /\ UNCHANGED <<main, serverVars, besideHost>>

\* self.stop_signal.lock().await.replace(tx); the accept loop is entered
ServerStoreSignal ==
    /\ discovery.server = "bound"
    /\ discovery' = [discovery EXCEPT !.stop_signal = TRUE, !.server = "select"]
    /\ UNCHANGED <<main, serverVars, besideHost>>

\* the rx branch of the select: take() the stop signal, break
ServerStop ==
    /\ discovery.server = "select"
    /\ discovery.signalled
    /\ discovery' = [discovery EXCEPT !.stop_signal = FALSE, !.server = "stopped"]
    /\ UNCHANGED <<main, serverVars, besideHost>>

\* ---- close()
\* step 1: take the stop signal and send on it, if there is one
CloseBegin(d) ==
    [d EXCEPT !.signalled = d.signalled \/ d.stop_signal,
              !.stop_signal = FALSE,
              !.close = "take_daemon"]

\* a caller of the service calls close() once discover() has returned
DiscoveryClose ==
    /\ discovery.close = "idle"
    /\ discovery.server # "none"
    /\ discovery' = CloseBegin(discovery)
    /\ UNCHANGED <<main, serverVars, besideHost>>

\* step 2: mdns_daemon.lock().await.take(); without a daemon close returns Ok
CloseTakeDaemon ==
    /\ discovery.close = "take_daemon"
    /\ discovery' = IF discovery.mdns_daemon
                    THEN [discovery EXCEPT !.mdns_daemon = FALSE, !.retries = 0,
                                           !.close = "shutdown"]
                    ELSE [discovery EXCEPT !.close = "returned", !.returned = Some("Ok")]
    /\ UNCHANGED <<main, serverVars, besideHost>>

\* what daemon.shutdown() can give
ShutdownResults == {"Ok", "Again", "Other"}

\* the same match, but a busy daemon is retried once more
CloseAttemptInclusive(d, result) ==
    CASE result = "Ok" ->
           [d EXCEPT !.attempts = @ + 1, !.close = "returned", !.returned = Some("Ok")]
      [] result = "Again" /\ d.retries <= MAX_RETRIES ->
           [d EXCEPT !.attempts = @ + 1, !.retries = @ + 1, !.close = "sleep"]
      [] OTHER ->
           [d EXCEPT !.attempts = @ + 1, !.close = "returned", !.returned = Some("Err")]

\* step 3, one round of the loop: daemon.shutdown() and the match on it
CloseAttempt(d, result) ==
    CASE result = "Ok" ->
           [d EXCEPT !.attempts = @ + 1, !.close = "returned", !.returned = Some("Ok")]
      [] result = "Again" /\ d.retries < MAX_RETRIES ->
           [d EXCEPT !.attempts = @ + 1, !.retries = @ + 1, !.close = "sleep"]
      [] OTHER ->
           [d EXCEPT !.attempts = @ + 1, !.close = "returned", !.returned = Some("Err")]

CloseShutdown(result) ==
    /\ discovery.close = "shutdown"
    /\ discovery' = [CloseAttempt(discovery, result) EXCEPT !.last = result]
    /\ UNCHANGED <<main, serverVars, besideHost>>

\* tokio::time::sleep(100 ms) is over: the next round
CloseWake ==
    /\ discovery.close = "sleep"
    /\ discovery' = [discovery EXCEPT !.close = "shutdown"]
    /\ UNCHANGED <<main, serverVars, besideHost>>

\* ---- main: discover(), TouchServer::new and start(), ctrl_c, close, return
\* discover_service.discover().await?
MainDiscover ==
    /\ main.pc = "discover"
    /\ discovery' = DiscoverCall(discovery)
    /\ main' = [main EXCEPT !.pc = "start", !.calls = Append(@, "discovery.discover")]
    /\ UNCHANGED <<serverVars, besideHost>>

\* TouchServer::new and touch_service.start(): the three tasks are spawned
MainStart ==
    /\ main.pc = "start"
    /\ main' = [main EXCEPT !.pc = "ctrl_c", !.calls = Append(@, "touch_server.start")]
    /\ touchProc' = [touchProc EXCEPT !.pc = "spawned"]
    /\ latencyProc' = [latencyProc EXCEPT !.pc = "spawned"]
    /\ acceptor' = [acceptor EXCEPT !.pc = "spawned"]
    /\ UNCHANGED <<discovery, shutdown, closePc, connections, worker, clock_offset_ms,
                   registered, besideHost>>

\* tokio::signal::ctrl_c() completes: the interrupt has arrived
MainInterrupt ==
    /\ main.pc = "ctrl_c"
    /\ main' = [main EXCEPT !.pc = "close"]
    /\ UNCHANGED <<discovery, serverVars, besideHost>>

\* discover_service.close() is called
MainClose ==
    /\ main.pc = "close"
    /\ discovery.close = "idle"
    /\ discovery' = CloseBegin(discovery)
    /\ main' = [main EXCEPT !.pc = "closing", !.calls = Append(@, "discovery.close")]
    /\ UNCHANGED <<serverVars, besideHost>>

\* close() has returned (an Err leaves main through the `?`): main returns
\* and the runtime with every task goes down
MainReturn ==
    /\ main.pc = "closing"
    /\ discovery.close = "returned"
    /\ main' = [main EXCEPT !.pc = "exited"]
    /\ UNCHANGED <<discovery, serverVars, besideHost>>

(***************************************************************************)
(*                     Initial states and specifications                   *)
(***************************************************************************)
\* a ProtoStream on which nothing has arrived, no call made
CodecInit ==
    /\ reader = [bytes |-> <<>>, eof |-> FALSE, frames |-> 0, failed |-> FALSE]
    /\ codec = [op |-> "none"]
    /\ frame_errors = {}

\* DiscoverService::new, and main about to call discover()
OrchestratorInit ==
    /\ main = [pc |-> "discover", calls |-> <<>>]
    /\ discovery = DiscoverServiceNew

HostInit == CodecInit /\ OrchestratorInit

DriverInit ==
    /\ driver = DriverNew(8192, 8192)
    /\ emitted = <<>>
    /\ driverWork = 0
    /\ key_state = KeysReleased
    /\ last_batch = <<>>
    /\ mt_slot = 0

AdmissionInit ==
    /\ adm = [c \in AdmConns |-> AdmInit]
    /\ callbacks = <<>>
    /\ ErrorCode \in ErrorCodeValues
    /\ seed_checksum \in Checksums

ServerInit ==
    /\ shutdown = Empty
    /\ closePc = 0
    /\ touchProc = [pc |-> "spawned", changed |-> FALSE]
    /\ latencyProc = [pc |-> "spawned", changed |-> FALSE]
    /\ acceptor = [pc |-> "spawned", changed |-> FALSE, drain |-> <<>>, conn |-> 0]
    /\ connections = {}
    /\ worker = [c \in Conns |-> WorkerInit]
    /\ clock_offset_ms = 0
    /\ registered = [c \in Conns |-> FALSE]
    /\ touch_events = <<>>
    /\ enqueued = [c \in Conns |-> 0]
    /\ emit_log = <<>>
    /\ latency_data = NoCall
    /\ seq_log = <<>>

\* TouchServer::new makes the tracker with a window of 100 samples; in the
\* specifications that never reach an overflow one build stands for both
ServerTracker ==
    /\ tracker = TrackerNew(100)
    /\ overflow_checks = FALSE

NoDevices ==
    /\ listening_device = EmptyMap
    /\ insertedBy = EmptyMap

\* the map as admission leaves it: any set of admitted peers
AdmittedDevices ==
    \E admitted \in SUBSET IPs :
        /\ listening_device = [ip \in admitted |-> Device("phone", ip, 1080, 2400)]
        /\ insertedBy = [ip \in admitted |-> 0]

\* ---- the driver alone
EmitterInit ==
    /\ HostInit
    /\ DriverInit
    /\ AdmissionInit /\ ErrorCode["HelloCheckSumMismatch"] = 0
                     /\ ErrorCode["RepeatedlyAddingDevices"] = 1 /\ seed_checksum = 0
    /\ NoDevices
    /\ ServerInit
    /\ ServerTracker

EmitterNext ==
    /\ \/ \E n \in 0..MaxBatch : \E touche_points \in Batches(n) : DriverEmit(touche_points)
       \/ \E sensitivity \in Sensitivities : SetSensitivity(sensitivity)
       \/ \E invert_x \in BOOLEAN : SetInvertX(invert_x)
       \/ \E invert_y \in BOOLEAN : SetInvertY(invert_y)
       \/ \E size \in {<<1080, 2400>>} : SetSize(size[1], size[2])
    /\ UNCHANGED <<admVars, mapVars, serverVars, pipeVars, trackerVars, hostVars>>

EmitterSpec == EmitterInit /\ [][EmitterNext]_vars

\* ---- SensitivitySpec: a driver whose sensitivity has been set to an
\* integer and whose size is the server's or a small one; fingers go down at
\* DownAt and move over a grid that reaches past the small size
MaxK == 3
DownAt == <<10, 10>>

SensitivityPoints ==
    [slot : Slots, tracking_id : {7}, x : {DownAt[1]}, y : {DownAt[2]}, status : {"Down", "Up"}]
        \cup [slot : Slots, tracking_id : {7}, x : {0, 10, 20, 30}, y : {10, 20},
              status : {"Move"}]

\* the driver after set_sensitivity(k) and, for the small device, set_size
SensitivityDrivers ==
    {[DriverNew(size, size) EXCEPT !.sensitivity = k * SensDen] :
        k \in 1..MaxK, size \in {8192, 40}}

SensitivitySpecInit ==
    /\ HostInit
    /\ driver \in SensitivityDrivers
    /\ emitted = <<>>
    /\ driverWork = 0
    /\ key_state = KeysReleased
    /\ last_batch = <<>>
    /\ mt_slot = 0
    /\ AdmissionInit /\ ErrorCode["HelloCheckSumMismatch"] = 0
                     /\ ErrorCode["RepeatedlyAddingDevices"] = 1 /\ seed_checksum = 0
    /\ NoDevices
    /\ ServerInit
    /\ ServerTracker

SensitivityNext ==
    /\ \E point \in SensitivityPoints : DriverEmit(<<point>>)
    /\ UNCHANGED <<admVars, mapVars, serverVars, pipeVars, trackerVars, hostVars>>

SensitivitySpec == SensitivitySpecInit /\ [][SensitivityNext]_vars

\* ---- SettingsSpec: the setters between single touch points, on a driver
\* whose sensitivity has been set to a multiple of 1 / SensDen
SettingsPoints == {p \in TouchPoints : p.slot = 0 /\ p.tracking_id = 7}

SettingsInit ==
    /\ HostInit
    /\ driver \in {[DriverNew(8192, 8192) EXCEPT !.sensitivity = sensitivity] :
                      sensitivity \in Sensitivities}
    /\ emitted = <<>>
    /\ driverWork = 0
    /\ key_state = KeysReleased
    /\ last_batch = <<>>
    /\ mt_slot = 0
    /\ AdmissionInit /\ ErrorCode["HelloCheckSumMismatch"] = 0
                     /\ ErrorCode["RepeatedlyAddingDevices"] = 1 /\ seed_checksum = 0
    /\ NoDevices
    /\ ServerInit
    /\ ServerTracker

SettingsNext ==
    /\ \/ \E point \in SettingsPoints : DriverEmit(<<point>>)
       \/ \E sensitivity \in Sensitivities : SetSensitivity(sensitivity)
       \/ \E invert_x \in BOOLEAN : SetInvertX(invert_x)
       \/ \E invert_y \in BOOLEAN : SetInvertY(invert_y)
       \/ \E size \in {<<1080, 2400>>} : SetSize(size[1], size[2])
    /\ UNCHANGED <<admVars, mapVars, serverVars, pipeVars, trackerVars, hostVars>>

SettingsSpec == SettingsInit /\ [][SettingsNext]_vars

\* ---- ToolCountSpec: batches of Down and Up over six slots, so that the
\* touched count runs from 0 to 6, and batches that put two fingers down and
\* lift two in one call
MaxToolSlot == 5
MaxToolBatch == 2

ToolPoints ==
    [slot : 0..MaxToolSlot, tracking_id : {7}, x : {0}, y : {0}, status : {"Down", "Up"}]
        \cup [slot : {0}, tracking_id : {7}, x : {1}, y : {0}, status : {"Move"}]

TwoFingerPoints == {p \in ToolPoints : p.slot \in {0, 1}}

ToolBatches ==
    {<<>>} \cup {<<p>> : p \in ToolPoints}
        \cup UNION {[1..n -> TwoFingerPoints] : n \in 2..MaxToolBatch}
        \cup {<<d1, d2, u1, u2>> :
                d1 \in {p \in TwoFingerPoints : p.status = "Down"},
                d2 \in {p \in TwoFingerPoints : p.status = "Down"},
                u1 \in {p \in TwoFingerPoints : p.status = "Up"},
                u2 \in {p \in TwoFingerPoints : p.status = "Up"}}

ToolCountNext ==
    /\ \E touche_points \in ToolBatches : CallEmitMultitouch(touche_points)
    /\ UNCHANGED <<driverWork, admVars, mapVars, serverVars, pipeVars, trackerVars, hostVars>>

ToolCountSpec == EmitterInit /\ [][ToolCountNext]_vars

\* ---- the admission server and the map
AdmissionSpecInit ==
    /\ HostInit
    /\ DriverInit
    /\ AdmissionInit
    /\ NoDevices
    /\ ServerInit
    /\ ServerTracker

AdmissionNext ==
    \/ \E c \in AdmConns, ip \in IPs : AcceptClient(c, ip)
    \/ \E c \in AdmConns, received \in AdmissionReceived, now \in Times :
          HandleClientConnection(c, received, now)
    \/ \E c \in AdmConns : RecordDevice(c)
    \/ \E conn_ip \in IPs : TransportWorkerExit(conn_ip)

AdmissionSpec == AdmissionSpecInit /\ [][AdmissionNext]_vars

\* ---- the touch server
\* The steps of the acceptor and of the connection workers
ConnectionSteps(payloads, ips) ==
    \/ AcceptorStart
    \/ AcceptorChanged
    \/ AcceptorDrain
    \/ AcceptorJoin
    \/ AcceptorBreak
    \/ AcceptIncoming
    \/ \E c \in Conns, ip \in ips : HandshakeOk(c, ip)
    \/ HandshakeErr
    \/ AcceptorInsert
    \/ \E c \in Conns : WorkerChanged(c)
    \/ \E c \in Conns : WorkerAcceptBi(c)
    \/ \E c \in Conns : WorkerAcceptErr(c)
    \/ \E c \in Conns, message \in payloads, now_ms \in Times :
          WorkerReceive(c, message, now_ms)
    \/ \E c \in Conns : WorkerReceiveErr(c)
    \/ \E c \in Conns : PeerClose(c)
    \/ \E c \in Conns : WorkerRemoveConn(c)
    \/ \E c \in Conns : WorkerRemoveDevice(c)

\* Spec: close(), the acceptor and the connection workers with every frame
\* of StreamPayloads, over any map admission may have left.  The touch and
\* latency processors read the watch and write nothing another task reads;
\* they take their steps in ShutdownSpec.
Init ==
    /\ HostInit
    /\ DriverInit
    /\ AdmissionInit /\ ErrorCode["HelloCheckSumMismatch"] = 0
                     /\ ErrorCode["RepeatedlyAddingDevices"] = 1 /\ seed_checksum = 0
    /\ AdmittedDevices
    /\ ServerInit
    /\ ServerTracker

Next ==
    \/ CloseSend
    \/ ConnectionSteps(StreamPayloads, IPs)

Spec == Init /\ [][Next]_vars

\* ShutdownSpec: the three long-lived workers, close() and the connection
\* workers, with the frames that leave the maps and the tracker alone.
ShutdownInit ==
    /\ HostInit
    /\ DriverInit
    /\ AdmissionInit /\ ErrorCode["HelloCheckSumMismatch"] = 0
                     /\ ErrorCode["RepeatedlyAddingDevices"] = 1 /\ seed_checksum = 0
    /\ NoDevices
    /\ ServerInit
    /\ ServerTracker

ShutdownNext ==
    \/ CloseSend
    \/ TouchStart
    \/ TouchChanged
    \/ LatencyStart
    \/ LatencyChanged
    \/ ConnectionSteps(ControlPayloads, {"10.0.0.7"})

\* every task of the runtime that can take a step eventually takes one; the
\* peers (new connections, streams, frames, closes) are under no obligation
Fairness ==
    /\ WF_vars(CloseSend)
    /\ WF_vars(TouchStart) /\ WF_vars(TouchChanged)
    /\ WF_vars(LatencyStart) /\ WF_vars(LatencyChanged)
    /\ WF_vars(AcceptorStart) /\ WF_vars(AcceptorChanged) /\ WF_vars(AcceptorDrain)
    /\ WF_vars(AcceptorJoin) /\ WF_vars(AcceptorBreak) /\ WF_vars(AcceptorInsert)
    /\ WF_vars(HandshakeErr \/ \E c \in Conns : HandshakeOk(c, "10.0.0.7"))
    /\ \A c \in Conns :
          /\ WF_vars(WorkerChanged(c)) /\ WF_vars(WorkerAcceptErr(c))
          /\ WF_vars(WorkerReceiveErr(c) /\ worker[c].closed)
          /\ WF_vars(WorkerRemoveConn(c)) /\ WF_vars(WorkerRemoveDevice(c))

ShutdownSpec == ShutdownInit /\ [][ShutdownNext]_vars /\ Fairness

\* ---- LatencySpec: the latency tracker under its callers, in a build
\* with and in a build without overflow checks
WindowSizes == {1, 2}
PhoneTimestampsMs == {1000, 1200}
ServerTimestampsUs == {999999, 1000000, 1200000}
ClockOffsetsMs == {-100, 0, 100}

\* the sequence numbers of the calls: the small ones and the largest
LatencySeqs == {0, 1, 2, 3, SeqModulus - 1}

LatencyInit ==
    /\ HostInit
    /\ DriverInit
    /\ AdmissionInit /\ ErrorCode["HelloCheckSumMismatch"] = 0
                     /\ ErrorCode["RepeatedlyAddingDevices"] = 1 /\ seed_checksum = 0
    /\ NoDevices
    /\ ServerInit
    /\ tracker \in {TrackerNew(window_size) : window_size \in WindowSizes}
    /\ overflow_checks \in BOOLEAN

LatencyNext ==
    /\ \/ \E seq \in LatencySeqs, phone_ts_ms \in PhoneTimestampsMs,
             server_ts_us \in ServerTimestampsUs :
                RecordPacketCall(seq, phone_ts_ms, server_ts_us)
       \/ \E offset_ms \in ClockOffsetsMs : SetClockOffset(offset_ms)
       \/ ResetLatencyStats
    /\ UNCHANGED <<driverVars, admVars, mapVars, emitVars, pipeVars, lifecycleVars, hostVars>>

LatencySpec == LatencyInit /\ [][LatencyNext]_vars

\* ---- PipelineSpec: two established connections whose workers are inside
\* the frame loop of a stream, the touch-event channel, and the processor
\* that feeds the driver
MaxPipePackets == 3
MaxPipeEvents == 4

\* a pointer of each event type; id, abs_x and abs_y are told apart by value
PipePointers == [id : {3}, event_type : TouchEventTypes, abs_x : {1}, abs_y : {2}]

PipePointerLists ==
    {<<p>> : p \in PipePointers}
        \cup {<<p, q>> : p, q \in {r \in PipePointers : r.event_type \in {"Down", "Move"}}}

PipeTuneSettings == {[invert_x |-> TRUE, invert_y |-> FALSE, sensitivity |-> 2 * SensDen]}

PipePayloads ==
    [type : {"TouchPacket"}, seq : {1}, ts_ms : {0}, pointers : PipePointerLists]
        \cup [type : {"SettingRequest"}, value : {None} \cup {Some(t) : t \in PipeTuneSettings}]

\* the run is cut off after MaxPipePackets touch packets or MaxPipeEvents
\* events sent
PipeBudget ==
    /\ tracker.total_packets < MaxPipePackets
    /\ Len(touch_events) + Len(emit_log) < MaxPipeEvents

PipelineInit ==
    /\ HostInit
    /\ DriverInit
    /\ AdmissionInit /\ ErrorCode["HelloCheckSumMismatch"] = 0
                     /\ ErrorCode["RepeatedlyAddingDevices"] = 1 /\ seed_checksum = 0
    /\ NoDevices
    /\ ServerTracker
    /\ shutdown = Empty
    /\ closePc = 0
    /\ touchProc = [pc |-> "select", changed |-> FALSE]
    /\ latencyProc = [pc |-> "select", changed |-> FALSE]
    /\ acceptor = [pc |-> "select", changed |-> FALSE, drain |-> <<>>, conn |-> 0]
    /\ connections = Conns
    /\ worker = [c \in Conns |-> [WorkerInit EXCEPT !.pc = "stream", !.ip = "10.0.0.7"]]
    /\ clock_offset_ms = 0
    /\ registered = [c \in Conns |-> FALSE]
    /\ touch_events = <<>>
    /\ enqueued = [c \in Conns |-> 0]
    /\ emit_log = <<>>
    /\ latency_data = NoCall
    /\ seq_log = <<>>

PipelineNext ==
    \/ \E c \in Conns, message \in PipePayloads :
          /\ PipeBudget
          /\ WorkerReceive(c, message, 0)
    \/ TouchRecv

PipelineSpec == PipelineInit /\ [][PipelineNext]_vars


\* ---- a transport stream of the touch server, frame by frame
\* the reader that holds exactly the given bytes, the stream finished
Written(bytes) == [bytes |-> bytes, eof |-> TRUE]

\* receive_message inside handle_stream, on the bytes of one frame: a
\* message goes to handle_message, an error ends the while-let (start() goes
\* round its loop), a panic unwinds the worker task
WorkerReceiveFrame(c, bytes, now_ms) ==
    /\ worker[c].pc = "stream"
    /\ ~worker[c].closed
    /\ \E r \in {ReceiveMessage(Written(bytes), overflow_checks)} :
          CASE r.kind = "Ok" ->
                 /\ HandleMessage(c, r.value, now_ms)
                 /\ UNCHANGED frame_errors
            [] r.kind = "Err" ->
                 /\ worker' = [worker EXCEPT ![c].pc = "select"]
                 /\ frame_errors' = frame_errors \cup {c}
                 /\ UNCHANGED <<clock_offset_ms, registered, mapVars, pipeVars, trackerVars>>
            [] OTHER ->
                 /\ worker' = [worker EXCEPT ![c].pc = "panicked", ![c].changed = FALSE]
                 /\ frame_errors' = frame_errors \cup {c}
                 /\ UNCHANGED <<clock_offset_ms, registered, mapVars, pipeVars, trackerVars>>
    /\ UNCHANGED <<shutdown, closePc, touchProc, latencyProc, acceptor, connections,
                   admVars, driverVars, emitVars, reader, codec, orchVars>>

\* frames on a transport stream: HeartBeat and Exit as the peer encodes
\* them, a prefix of 4097, a prefix of six bytes, an envelope that is cut
\* and an envelope of an unknown variant
StreamFrames ==
    {EncodeWithLengthPrefix(WrapperEncodeToVec(msg)) :
        msg \in {[type |-> "HeartBeat"], [type |-> "Exit", ts_ms |-> 7]}}
        \cup {LengthPrefix(4097) \o <<0, 0, 0>>, <<128, 128, 128, 128, 128, 1>>,
              <<2, 10, 5>>, <<2, 74, 0>>}

\* the server is up and is not closed; peers connect, open streams, send
\* frames and go
ProtocolInit ==
    /\ HostInit
    /\ DriverInit
    /\ AdmissionInit /\ ErrorCode["HelloCheckSumMismatch"] = 0
                     /\ ErrorCode["RepeatedlyAddingDevices"] = 1 /\ seed_checksum = 0
    /\ NoDevices
    /\ ServerInit
    /\ tracker = TrackerNew(100)
    /\ overflow_checks \in BOOLEAN

ProtocolNext ==
    \/ AcceptorStart
    \/ AcceptIncoming
    \/ \E c \in Conns : HandshakeOk(c, "10.0.0.7")
    \/ HandshakeErr
    \/ AcceptorInsert
    \/ \E c \in Conns : WorkerAcceptBi(c)
    \/ \E c \in Conns : WorkerAcceptErr(c)
    \/ \E c \in Conns, bytes \in StreamFrames, now_ms \in Times :
          WorkerReceiveFrame(c, bytes, now_ms)
    \/ \E c \in Conns : WorkerReceiveErr(c)
    \/ \E c \in Conns : PeerClose(c)
    \/ \E c \in Conns : WorkerRemoveConn(c)
    \/ \E c \in Conns : WorkerRemoveDevice(c)

\* every task of the runtime that can take a step eventually takes one; the
\* peers are under no obligation
ProtocolFairness ==
    /\ WF_vars(AcceptorStart) /\ WF_vars(AcceptorInsert)
    /\ WF_vars(HandshakeErr \/ \E c \in Conns : HandshakeOk(c, "10.0.0.7"))
    /\ \A c \in Conns :
          /\ WF_vars(WorkerAcceptErr(c))
          /\ WF_vars(WorkerReceiveErr(c) /\ worker[c].closed)
          /\ WF_vars(WorkerRemoveConn(c)) /\ WF_vars(WorkerRemoveDevice(c))

ProtocolSpec == ProtocolInit /\ [][ProtocolNext]_vars /\ ProtocolFairness

\* ---- the codec alone: frames of every variant, and raw frames of a peer
Fill(n) == [i \in 1..n |-> 0]

CodecPointers ==
    [id : {0, 3}, event_type : {1}, abs_x : {300}, abs_y : {2}]

CodecMessages ==
    \* (a certificate of 4087 bytes makes an envelope of exactly 4096)
    [type : {"Welcome"}, cert_der : {<<>>, <<48, 130>>, Fill(4087)}, ts_ms : {300}]
        \cup [type : {"Reject"}, reason : {1}]
        \cup {[type |-> "HeartBeat"]}
        \cup [type : {"DiscoverValidation"}, checksum : {5}, send_ts : {1},
              device_name : {<<112, 104>>}, random_key : {<<>>},
              width : {1080}, height : {2400}]
        \cup [type : {"RegisterDevice"}, device_name : {<<112, 104>>}, ip : {<<49, 48>>},
              width : {1080}, height : {2400}, send_ts : {1}]
        \cup [type : {"TouchPacket"}, seq : {1}, ts_ms : {1000},
              pointers : {<<>>} \cup {<<p>> : p \in CodecPointers}]
        \cup [type : {"SettingRequest"},
              value : {None, Some([invert_x |-> 1, invert_y |-> 0, sensitivity |-> 2])}]
        \cup [type : {"Exit"}, ts_ms : {7}]

\* prefixes of 0, 4096, 4097 and 16384 with whole, short and missing bodies,
\* a prefix of six bytes, prefixes of five bytes (2^32 - 1, and 2^32 which
\* the u32 cuts to 0), an envelope of an unknown variant and one that is cut
RawFrames ==
    {<<0>>, LengthPrefix(4096) \o Fill(10),
     LengthPrefix(4097) \o Fill(3), LengthPrefix(4097),
     LengthPrefix(16384) \o Fill(2), <<128, 128, 128, 128, 128, 1>>,
     <<255, 255, 255, 255, 15>>, <<128, 128, 128, 128, 16>>,
     <<2, 74, 0>>, <<2, 10, 5>>}
        \cup {EncodeWithLengthPrefix(WrapperEncodeToVec(msg)) :
                msg \in {m \in CodecMessages : m.type \notin Wrappable}}

CodecSpecInit ==
    /\ HostInit
    /\ DriverInit
    /\ AdmissionInit /\ ErrorCode["HelloCheckSumMismatch"] = 0
                     /\ ErrorCode["RepeatedlyAddingDevices"] = 1 /\ seed_checksum = 0
    /\ NoDevices
    /\ ServerInit
    /\ tracker = TrackerNew(100)
    /\ overflow_checks \in BOOLEAN

CodecNext ==
    /\ \/ \E msg \in CodecMessages : SendMessageCall(msg)
       \/ \E bytes \in RawFrames : PeerWrite(bytes)
       \/ PeerFinish
       \/ ReceiveMessageCall
    /\ UNCHANGED <<driverVars, admVars, mapVars, serverVars, emitVars, pipeVars, trackerVars>>

CodecSpec == CodecSpecInit /\ [][CodecNext]_vars

(***************************************************************************)
(*                        Properties of the codec                          *)
(***************************************************************************)
\* C21: codec round trip.  For a message of every payload variant of the
\* envelope (Welcome, Reject, HeartBeat, DiscoverValidation, RegisterDevice,
\* TouchPacket, SettingRequest, Exit) send_message succeeds, and
\* receive_message on the bytes it wrote gives the message back.
C21_RoundTrip ==
    codec.op = "send" =>
        /\ codec.returned.kind = "Ok"
        /\ LET back == ReceiveMessage(Written(codec.returned.value), overflow_checks)
           IN back.kind = "Ok" /\ back.value = codec.msg

\* the reader's bytes begin with the given bytes
StartsWith(bytes, prefix) ==
    Len(bytes) >= Len(prefix) /\ SubSeq(bytes, 1, Len(prefix)) = prefix

\* length prefixes above 4096: 4097, 16384 and 2^32 - 1
OverPrefixes == {LengthPrefix(4097), LengthPrefix(16384), <<255, 255, 255, 255, 15>>}

\* a step in which receive_message returned
Received ==
    /\ codec'.op = "receive"
    /\ reader'.failed # reader.failed \/ Len(reader'.bytes) < Len(reader.bytes)

\* C22: frame read rejects oversize.  A receive_message that finds a length
\* prefix greater than 4096 fails with the invalid-length error and takes
\* the prefix from the stream and no byte after it; one that finds a prefix
\* of exactly 4096 and the 4096 bytes takes them all and does not fail on
\* the length.
C22_OversizeRejected ==
    [][Received =>
          /\ \A prefix \in OverPrefixes :
                StartsWith(reader.bytes, prefix) =>
                    /\ codec'.returned.kind = "Err"
                    /\ codec'.returned.error = "Invalid message length"
                    /\ reader'.bytes = SubSeq(reader.bytes, Len(prefix) + 1,
                                              Len(reader.bytes))
          /\ (/\ StartsWith(reader.bytes, LengthPrefix(4096))
              /\ Len(reader.bytes) >= Len(LengthPrefix(4096)) + 4096) =>
                    /\ codec'.returned.kind = "Err" =>
                           codec'.returned.error # "Invalid message length"
                    /\ Len(reader'.bytes) =
                           Len(reader.bytes) - Len(LengthPrefix(4096)) - 4096]_vars

\* C22 witness: a prefix of 4097 was refused and the three bytes that
\* followed it are still in the reader
C22_Witness ==
    /\ codec.op = "receive"
    /\ codec.returned.kind = "Err"
    /\ codec.returned.error = "Invalid message length"
    /\ codec.returned.consumed = 2
    /\ reader.bytes = Fill(3)

\* the connection is gone: its worker has exited and it is out of the map
Dropped(c) == worker[c].pc = "exited" /\ c \notin connections

\* C23: when a frame received on a transport stream fails to decode or
\* carries an over-long length prefix, that connection is dropped: its
\* worker exits and the connection is removed.
C23_BadFrameDropsConnection ==
    \A c \in Conns : (c \in frame_errors) ~> Dropped(c)

\* ---- the discovery service under a caller: discover(), then close() at
\* any moment of the start-up of the admission server task
DiscoveryInit ==
    /\ HostInit
    /\ DriverInit
    /\ AdmissionInit /\ ErrorCode["HelloCheckSumMismatch"] = 0
                     /\ ErrorCode["RepeatedlyAddingDevices"] = 1 /\ seed_checksum = 0
    /\ NoDevices
    /\ ServerInit
    /\ ServerTracker

DiscoveryNext ==
    \/ Discover
    \/ ServerBind
    \/ ServerBindErr
    \/ ServerStoreSignal
    \/ ServerStop
    \/ DiscoveryClose
    \/ CloseTakeDaemon
    \/ \E result \in ShutdownResults : CloseShutdown(result)
    \/ CloseWake

\* the spawned task and a close() that has been called go on; whether and
\* when discover() and close() are called is the caller's business
DiscoveryFairness ==
    /\ WF_vars(ServerBind \/ ServerBindErr)
    /\ WF_vars(ServerStoreSignal)
    /\ WF_vars(ServerStop)
    /\ WF_vars(CloseTakeDaemon)
    /\ WF_vars(\E result \in ShutdownResults : CloseShutdown(result))
    /\ WF_vars(CloseWake)

DiscoverySpec == DiscoveryInit /\ [][DiscoveryNext]_vars /\ DiscoveryFairness

\* ---- shutdown of both services on a started server: TouchServer::close,
\* and after its last send DiscoverService::close.  Devices have been
\* admitted; none of them has opened a transport connection, and no peer
\* turns up while the services go down.
\* discover() has returned and the admission server task is in its loop
DiscoveryStarted ==
    [DiscoverServiceNew EXCEPT !.mdns_daemon = TRUE, !.stop_signal = TRUE,
                               !.server = "select"]

TeardownInit ==
    /\ CodecInit
    /\ main = [pc |-> "ctrl_c", calls |-> <<>>]
    /\ discovery = DiscoveryStarted
    /\ DriverInit
    /\ AdmissionInit /\ ErrorCode["HelloCheckSumMismatch"] = 0
                     /\ ErrorCode["RepeatedlyAddingDevices"] = 1 /\ seed_checksum = 0
    /\ AdmittedDevices
    /\ ServerTracker
    /\ shutdown = Empty
    /\ closePc = 0
    /\ touchProc = [pc |-> "select", changed |-> FALSE]
    /\ latencyProc = [pc |-> "select", changed |-> FALSE]
    /\ acceptor = [pc |-> "select", changed |-> FALSE, drain |-> <<>>, conn |-> 0]
    /\ connections = {}
    /\ worker = [c \in Conns |-> WorkerInit]
    /\ clock_offset_ms = 0
    /\ registered = [c \in Conns |-> FALSE]
    /\ touch_events = <<>>
    /\ enqueued = [c \in Conns |-> 0]
    /\ emit_log = <<>>
    /\ latency_data = NoCall
    /\ seq_log = <<>>

\* discovery.close() is called once TouchServer::close has returned
TeardownClose ==
    /\ closePc = Len(CloseSends)
    /\ DiscoveryClose

TeardownNext ==
    \/ CloseSend
    \/ TouchChanged
    \/ LatencyChanged
    \/ AcceptorChanged
    \/ AcceptorDrain
    \/ AcceptorBreak
    \/ TeardownClose
    \/ CloseTakeDaemon
    \/ \E result \in ShutdownResults : CloseShutdown(result)
    \/ CloseWake
    \/ ServerStop

\* the caller goes through with both calls and every task takes its steps
TeardownFairness ==
    /\ WF_vars(CloseSend)
    /\ WF_vars(TouchChanged) /\ WF_vars(LatencyChanged)
    /\ WF_vars(AcceptorChanged) /\ WF_vars(AcceptorDrain) /\ WF_vars(AcceptorBreak)
    /\ WF_vars(TeardownClose)
    /\ WF_vars(CloseTakeDaemon)
    /\ WF_vars(\E result \in ShutdownResults : CloseShutdown(result))
    /\ WF_vars(CloseWake)
    /\ WF_vars(ServerStop)

TeardownSpec == TeardownInit /\ [][TeardownNext]_vars /\ TeardownFairness

\* ---- main as written, from discover() to its return
OrchestratorSpecInit ==
    /\ HostInit
    /\ DriverInit
    /\ AdmissionInit /\ ErrorCode["HelloCheckSumMismatch"] = 0
                     /\ ErrorCode["RepeatedlyAddingDevices"] = 1 /\ seed_checksum = 0
    /\ NoDevices
    /\ ServerTracker
    /\ shutdown = Empty
    /\ closePc = 0
    /\ touchProc = [pc |-> "none", changed |-> FALSE]
    /\ latencyProc = [pc |-> "none", changed |-> FALSE]
    /\ acceptor = [pc |-> "none", changed |-> FALSE, drain |-> <<>>, conn |-> 0]
    /\ connections = {}
    /\ worker = [c \in Conns |-> WorkerInit]
    /\ clock_offset_ms = 0
    /\ registered = [c \in Conns |-> FALSE]
    /\ touch_events = <<>>
    /\ enqueued = [c \in Conns |-> 0]
    /\ emit_log = <<>>
    /\ latency_data = NoCall
    /\ seq_log = <<>>

OrchestratorNext ==
    /\ main.pc # "exited"
    /\ \/ MainDiscover
       \/ MainStart
       \/ MainInterrupt
       \/ MainClose
       \/ MainReturn
       \/ ServerBind
       \/ ServerBindErr
       \/ ServerStoreSignal
       \/ ServerStop
       \/ CloseTakeDaemon
       \/ \E result \in ShutdownResults : CloseShutdown(result)
       \/ CloseWake
       \/ TouchStart
       \/ LatencyStart
       \/ AcceptorStart

OrchestratorSpec == OrchestratorSpecInit /\ [][OrchestratorNext]_vars

(***************************************************************************)
(*              Properties of start-up and shutdown of the host            *)
(***************************************************************************)
\* the positions of a call in main's sequence of calls
CallsOf(name) == {i \in 1..Len(main.calls) : main.calls[i] = name}

\* C24: on the interrupt the orchestrator first calls touch_server.close()
\* and only afterwards discovery.close(); a main that has returned has made
\* both calls.
C24_CloseOrder ==
    /\ \A i \in CallsOf("discovery.close") :
          \E j \in CallsOf("touch_server.close") : j < i
    /\ main.pc = "exited" =>
          CallsOf("touch_server.close") # {} /\ CallsOf("discovery.close") # {}

\* C25: after shutdown, touch_server.close() followed by discovery.close(),
\* the admitted-devices map eventually becomes empty, the entries of
\* devices that were admitted but never opened a transport connection
\* included.
C25_MapEmptiedAfterShutdown ==
    (closePc = Len(CloseSends) /\ discovery.close = "returned")
        ~> (listening_device = EmptyMap)

\* C26: discovery.close() always terminates.  It attempts the daemon's
\* shutdown at most 6 times, one attempt and at most 5 retries, a retry
\* only after a busy result; it returns Ok when an attempt succeeds, and an
\* error on any other failure or when the attempt after the 5th retry is
\* still busy.
C26_CloseTerminates ==
    /\ [](/\ discovery.attempts <= MAX_RETRIES + 1
          /\ discovery.retries <= MAX_RETRIES
          /\ discovery.close \in {"shutdown", "sleep"} =>
                discovery.attempts = discovery.retries
          /\ discovery.close = "sleep" => discovery.last = "Again"
          /\ (discovery.close = "returned" /\ discovery.attempts > 0) =>
                /\ discovery.attempts = discovery.retries + 1
                /\ discovery.last = "Ok" => discovery.returned = Some("Ok")
                /\ discovery.last = "Other" => discovery.returned = Some("Err")
                /\ discovery.last = "Again" =>
                      /\ discovery.returned = Some("Err")
                      /\ discovery.retries = MAX_RETRIES)
    /\ (discovery.close # "idle") ~> (discovery.close = "returned")

\* C26 witness: close() has returned an error after six busy attempts
C26_Witness ==
    /\ discovery.close = "returned"
    /\ discovery.returned = Some("Err")
    /\ discovery.attempts = 6
    /\ discovery.retries = 5
    /\ discovery.last = "Again"

\* C27: after close() has been called on a service started with discover(),
\* the accept loop of the admission server task eventually stops, whatever
\* the interleaving of close() with the start-up of the task.
C27_AcceptLoopStops ==
    (discovery.close # "idle") ~> (discovery.server \in {"stopped", "failed"})

(***************************************************************************)
(*                        Properties of the emitter                        *)
(***************************************************************************)
\* C2: slot bookkeeping.  After any sequence of Down, Move and Up events, a
\* slot is in the touched set iff it has a last-input entry iff it has a
\* last-output entry.
C2_SlotBookkeeping ==
    \A s \in Slots :
        /\ s \in driver.touched_slots <=> s \in DOMAIN driver.last_input_position
        /\ s \in DOMAIN driver.last_input_position
              <=> s \in DOMAIN driver.last_output_position

(***************************************************************************)
(*                        Properties of admission                          *)
(***************************************************************************)
\* connection c has run handle_client_connection on a DiscoverValidation frame
ReadValidation(c) ==
    /\ adm[c].pc \in {"validated", "closed"}
    /\ adm[c].received.ok
    /\ adm[c].received.payload.type = "DiscoverValidation"

GoodChecksum(c) == adm[c].received.payload.checksum = seed_checksum

\* the discover-callback has fired for connection c
CallbackFired(c) == \E i \in 1..Len(callbacks) : callbacks[i].conn = c

\* C3: admission determinism.  A DiscoverValidation with the seed's checksum
\* is answered with Welcome and its device recorded exactly when the source
\* IP is not in the admitted map; when the IP is in the map the answer is
\* Reject and nothing is recorded.
C3_AdmissionDeterminism ==
    \A c \in AdmConns :
        (ReadValidation(c) /\ GoodChecksum(c)) =>
            IF adm[c].present
            THEN /\ adm[c].pc = "closed"
                 /\ adm[c].replies # <<>>
                 /\ \A i \in 1..Len(adm[c].replies) : adm[c].replies[i].type = "Reject"
                 /\ ~adm[c].recorded
                 /\ ~CallbackFired(c)
            ELSE /\ Len(adm[c].replies) = 1
                 /\ adm[c].replies[1].type = "Welcome"
                 /\ adm[c].pc = "closed" => adm[c].recorded
                 /\ adm[c].recorded =>
                       \E i \in 1..Len(callbacks) :
                           /\ callbacks[i].conn = c
                           /\ callbacks[i].device =
                                 Device(adm[c].received.payload.device_name, adm[c].addr,
                                        adm[c].received.payload.width,
                                        adm[c].received.payload.height)

\* C3 witness: one connection was welcomed and recorded, and another, from
\* an IP then in the map, was rejected
C3_Witness ==
    \E c, d \in AdmConns :
        /\ ReadValidation(c) /\ GoodChecksum(c) /\ ~adm[c].present /\ adm[c].recorded
        /\ ReadValidation(d) /\ GoodChecksum(d) /\ adm[d].present /\ adm[d].pc = "closed"

\* C4: rejection on mismatch.  A DiscoverValidation with any other checksum
\* is answered with Reject{HelloCheckSumMismatch}; the connection records no
\* device in the map and the discover-callback does not fire for it.
C4_MismatchRejected ==
    \A c \in AdmConns :
        (ReadValidation(c) /\ ~GoodChecksum(c)) =>
            /\ adm[c].pc = "closed"
            /\ adm[c].replies # <<>>
            /\ adm[c].replies[1] = Reject(ErrorCode["HelloCheckSumMismatch"])
            /\ ~adm[c].recorded
            /\ ~CallbackFired(c)

\* C4 witness: a connection whose DiscoverValidation had a wrong checksum
\* has been handled, from an IP that is not in the map
C4_Witness ==
    \E c \in AdmConns :
        /\ ReadValidation(c) /\ ~GoodChecksum(c)
        /\ adm[c].addr \notin DOMAIN listening_device

\* C5: on every admission connection from which a DiscoverValidation was
\* read, exactly one reply frame (a Welcome or a Reject) is written before
\* the connection closes.
C5_ExactlyOneReply ==
    \A c \in AdmConns :
        ReadValidation(c) =>
            /\ Len(adm[c].replies) = 1
            /\ adm[c].replies[1].type \in {"Welcome", "Reject"}

\* C6: duplicate IP.  A DiscoverValidation with the seed's checksum from an
\* IP in the admitted map is answered with the frame
\* Reject{RepeatedlyAddingDevices}, and nothing is recorded.
C6_DuplicateRejectedWithCode ==
    \A c \in AdmConns :
        (ReadValidation(c) /\ GoodChecksum(c) /\ adm[c].present) =>
            /\ adm[c].replies = << Reject(ErrorCode["RepeatedlyAddingDevices"]) >>
            /\ ~adm[c].recorded

\* the first frame read on connection c was not a DiscoverValidation
ReadOtherVariant(c) ==
    /\ adm[c].pc \in {"validated", "closed"}
    /\ adm[c].received.ok
    /\ adm[c].received.payload.type # "DiscoverValidation"

\* C7 as stated: a first frame of any other variant is answered with
\* Reject{reason=1}, the connection is closed and no device is recorded.
C7_OtherVariantRejected ==
    \A c \in AdmConns :
        ReadOtherVariant(c) =>
            /\ adm[c].replies = << Reject(1) >>
            /\ adm[c].pc = "closed"
            /\ ~adm[c].recorded

\* C7 amended: a first frame of any other variant is answered with no frame
\* at all; the connection is closed and no device is recorded.
C7_OtherVariantDropped ==
    \A c \in AdmConns :
        ReadOtherVariant(c) =>
            /\ adm[c].replies = <<>>
            /\ adm[c].pc = "closed"
            /\ ~adm[c].recorded
            /\ ~CallbackFired(c)

\* C7 witness: a connection whose first frame was a HeartBeat has been handled
C7_Witness ==
    \E c \in AdmConns :
        /\ ReadOtherVariant(c)
        /\ adm[c].received.payload.type = "HeartBeat"
        /\ adm[c].pc = "closed"

\* C28: of the admission connections from one source IP that are handled
\* concurrently, with that IP neither in the map when they were handled nor
\* recorded by any other connection, at most one is answered with Welcome
\* and goes on to fire the discover-callback.
C28_OneWelcomePerIp ==
    \A c, d \in AdmConns :
        (/\ c # d
         /\ adm[c].addr = adm[d].addr
         /\ adm[c].pc = "validated" /\ ~adm[c].present
         /\ adm[d].pc \in {"validated", "closed"} /\ ~adm[d].present
         /\ \A e \in AdmConns \ {c, d} : ~(adm[e].recorded /\ adm[e].addr = adm[c].addr))
        => ~(/\ \E i \in 1..Len(adm[c].replies) : adm[c].replies[i].type = "Welcome"
             /\ \E i \in 1..Len(adm[d].replies) : adm[d].replies[i].type = "Welcome")

(***************************************************************************)
(*                     Properties of the touch server                      *)
(***************************************************************************)
\* the acceptor has borrowed its own stop tag from the watch
AcceptorStopped == acceptor.pc \in {"closing", "drain", "done"}

\* C1: on a started server (each of the three long-lived workers waits on
\* the shutdown watch), close() makes its three sends and each worker
\* eventually observes its own stop tag and leaves its loop, whatever the
\* scheduling of the workers relative to the sends.
C1_CloseStopsEveryWorker ==
    (/\ closePc = 0
     /\ acceptor.pc = "select" /\ touchProc.pc = "select" /\ latencyProc.pc = "select")
        ~> (AcceptorStopped /\ touchProc.pc = "done" /\ latencyProc.pc = "done")

\* C8: removal on worker exit.  Once the worker of a connection has exited,
\* the admitted-devices map holds no device inserted on behalf of that
\* connection: none inserted by a RegisterDevice frame it received, whatever
\* ip the frame carried, and none admitted from the connection's address.
C8_RemovedOnWorkerExit ==
    \A c \in Conns :
        worker[c].pc = "exited" =>
            \A k \in DOMAIN listening_device :
                /\ insertedBy[k] # c
                /\ insertedBy[k] = 0 => k # worker[c].ip

\* C9: when the acceptor observes its stop tag while connections are live,
\* every connection is closed with reason "shutdown", every connection
\* worker ends, and the acceptor's wait for them finishes: the acceptor ends.
C9_AcceptorShutdownFinishes ==
    (acceptor.pc = "closing" /\ connections # {})
        ~> (acceptor.pc = "done" /\ \A c \in Conns : worker[c].pc \in {"none", "exited"})

\* C10: the clock offset is set once per connection.  A RegisterDevice frame
\* handled on a connection that has already handled one leaves the stored
\* clock offset as it is.
C10_ClockOffsetSetOnce ==
    [][\A c \in Conns, message \in RegisterDevices, now_ms \in Times :
          (registered[c] /\ WorkerReceive(c, message, now_ms))
              => clock_offset_ms' = clock_offset_ms]_vars

(***************************************************************************)
(*              Properties of the path from frame to emitter               *)
(***************************************************************************)
\* the entries sent on the touch-event channel so far, handled or not
SentEntries == emit_log \o touch_events

\* C11: pointer to TouchPoint mapping.  No TouchPoint is produced for an
\* Unspecified or unknown event type; Down gives status Down and Move status
\* Move, both with tracking_id = id; Up and Cancel both give status Up with
\* tracking_id = -1; every produced point has slot = id and (x, y) =
\* (abs_x, abs_y).
C11_PointerMapping ==
    \A i \in 1..Len(SentEntries) :
        SentEntries[i].event.kind = "TouchPoint" =>
            LET pointer == SentEntries[i].pointer
                tp == SentEntries[i].event.touch_point
            IN /\ pointer.event_type \notin {"Unspecified", "Invalid"}
               /\ tp.slot = pointer.id
               /\ tp.x = pointer.abs_x /\ tp.y = pointer.abs_y
               /\ pointer.event_type \in {"Down", "Move"} =>
                     tp.status = pointer.event_type /\ tp.tracking_id = pointer.id
               /\ pointer.event_type \in {"Up", "Cancel"} =>
                     tp.status = "Up" /\ tp.tracking_id = -1

\* C12: per-connection ordering.  The events of one connection reach the
\* channel, and from it the emitter, in the order in which the connection's
\* frames were received (pointers of one packet in list order): the events
\* handled so far, followed by those still queued, are the connection's
\* first, second, third ... event, none missing and none ahead of an
\* earlier one.
C12_PerConnectionOrder ==
    \A c \in Conns :
        LET q == From(emit_log, c) \o From(touch_events, c)
        IN /\ Len(q) = enqueued[c]
           /\ \A i \in 1..Len(q) : q[i].rank = i

\* C12 witness: the emitter has handled two events of each of two
\* connections, interleaved
C12_Witness ==
    /\ Len(emit_log) = 4
    /\ emit_log[1].from = 1 /\ emit_log[2].from = 2
    /\ emit_log[3].from = 1 /\ emit_log[4].from = 2
    /\ emit_log[3].event.kind = "TouchPoint"
    /\ last_batch = <<emit_log[4].event.touch_point>>

(***************************************************************************)
(*                    Properties of the latency tracker                    *)
(***************************************************************************)
\* C19: record_packet(seq, client_ts_ms, server_ts_us) returns None exactly
\* when server_ts_us - (client_ts_ms*1000 - clock_offset_ms*1000) is
\* negative; otherwise it returns a sample whose current latency is that
\* value (offset +100 ms, ts_ms = 1000, server_ts_us = 1200000 gives 300000).
C19_LatencyNonNegativity ==
    (latency_data.called /\ ~latency_data.panicked) =>
        LET value == latency_data.server_ts_us
                        - (latency_data.phone_ts_ms * 1000 - latency_data.offset_ms * 1000)
        IN /\ ~latency_data.returned.some <=> value < 0
           /\ latency_data.returned.some =>
                 latency_data.returned.value.current_latency_us = value
           /\ (/\ latency_data.offset_ms = 100 /\ latency_data.phone_ts_ms = 1000
               /\ latency_data.server_ts_us = 1200000) =>
                 /\ latency_data.returned.some
                 /\ latency_data.returned.value.current_latency_us = 300000

\* C19 witness: the call of the example, after a call that returned None
C19_Witness ==
    /\ latency_data.called /\ ~latency_data.panicked
    /\ latency_data.offset_ms = 100 /\ latency_data.phone_ts_ms = 1000
    /\ latency_data.server_ts_us = 1200000
    /\ latency_data.returned = Some([current_latency_us |-> 300000,
                                     avg_latency_us |-> 300000,
                                     min_latency_us |-> 300000,
                                     max_latency_us |-> 300000,
                                     packet_loss_rate |-> <<0, 2>>,
                                     total_packets |-> 2,
                                     seq |-> 1])

\* the lost-packet count of a stream of sequence numbers: the sum over
\* i >= 1 of max(0, s_i - s_(i-1) - 1)
RECURSIVE Loss(_)
Loss(stream) ==
    IF Len(stream) < 2 THEN 0
    ELSE LET n == Len(stream)
             gap == stream[n] - stream[n - 1] - 1
         IN Loss(SubSeq(stream, 1, n - 1)) + (IF gap > 0 THEN gap ELSE 0)

\* C20: loss accounting.  For the sequence numbers recorded on a fresh or
\* reset tracker the lost-packet count is the sum over i >= 1 of
\* max(0, s_i - s_(i-1) - 1): the first packet is the baseline, repeated
\* and decreasing sequence numbers contribute 0.
C20_LossAccounting ==
    /\ tracker.lost_packets = Loss(seq_log)
    /\ tracker.total_packets = Len(seq_log)

\* C20 witness: a decrease followed by a gap of two
C20_Witness ==
    /\ seq_log = <<2, 0, 3>>
    /\ tracker.lost_packets = 2

(***************************************************************************)
(*                      Properties of the tool count                       *)
(***************************************************************************)
\* the key events among the events of a batch, in order
KeyEvents(events) == SelectSeq(events, LAMBDA e : e[1] \in KeyNames)

\* the number of touched slots
TouchedCount(d) == Cardinality(d.touched_slots)

\* C13: tool-count transitions.  A batch that takes the touched count from
\* a to b emits no tool-count key event when a = b (a batch that goes
\* 0 -> 2 -> 0 included), and otherwise exactly the events for leaving a and
\* entering b, no extras and no duplicates: BTN_TOUCH pressed when leaving 0
\* and released when entering 0, for counts 1..5 the matching tool key
\* released on leave and pressed on entry, nothing for counts above 5.
C13_ToolCountTransitions ==
    [][KeyEvents(emitted') =
          (IF TouchedCount(driver) = TouchedCount(driver') THEN <<>>
           ELSE LeaveEvents(TouchedCount(driver)) \o EnterEvents(TouchedCount(driver')))]_vars

\* C13 witness: one batch has put two fingers down and lifted them again,
\* with two tracking_id = -1 writes and no key event
C13_Witness ==
    /\ Len(last_batch) = 4
    /\ last_batch[1].status = "Down" /\ last_batch[2].status = "Down"
    /\ last_batch[1].slot # last_batch[2].slot
    /\ last_batch[3].status = "Up" /\ last_batch[4].status = "Up"
    /\ last_batch[3].slot # last_batch[4].slot
    /\ driver.touched_slots = {}
    /\ KeyEvents(emitted) = <<>>
    /\ Len(SelectSeq(emitted, LAMBDA e : e = <<"ABS_MT_TRACKING_ID", -1>>)) = 2

\* C14: after any sequence of batches from an empty emitter with all keys
\* released, BTN_TOUCH is pressed exactly when the touched set is non-empty
\* and, for k in 1..5, the k-finger tool key is pressed exactly when the
\* touched set has k slots (no tool key at count 0 or above 5).
C14_KeyStateMatchesCount ==
    /\ key_state["BTN_TOUCH"] = 1 <=> driver.touched_slots # {}
    /\ \A k \in 1..5 : key_state[ToolKey[k]] = 1 <=> TouchedCount(driver) = k
    /\ \A k \in KeyNames : key_state[k] \in {0, 1}

\* C14 witness: six slots touched, BTN_TOUCH pressed and no tool key
C14_Witness ==
    /\ TouchedCount(driver) = 6
    /\ key_state = [KeysReleased EXCEPT !["BTN_TOUCH"] = 1]

(***************************************************************************)
(*                Properties of the tracking ids written                   *)
(***************************************************************************)
\* the events of a batch cut into the events of each of its points: a Down
\* writes six events, an Up two, a Move four, or six when it opens with
\* ABS_MT_SLOT
RECURSIVE Segments(_, _)
Segments(touche_points, events) ==
    IF touche_points = <<>> THEN <<>>
    ELSE LET n == CASE Head(touche_points).status = "Down" -> 6
                    [] Head(touche_points).status = "Up" -> 2
                    [] Head(touche_points).status = "Move" ->
                         IF events[1][1] = "ABS_MT_SLOT" THEN 6 ELSE 4
         IN <<SubSeq(events, 1, n)>>
                \o Segments(Tail(touche_points), SubSeq(events, n + 1, Len(events)))

\* C15: tracking id on Up.  For every Up event the emitter outputs
\* ABS_MT_SLOT = slot followed by ABS_MT_TRACKING_ID = -1, whatever
\* tracking_id the input TouchPoint carries.
C15_UpWritesMinusOne ==
    \A i \in 1..Len(last_batch) :
        last_batch[i].status = "Up" =>
            Segments(last_batch, emitted)[i] =
                << <<"ABS_MT_SLOT", last_batch[i].slot>>, <<"ABS_MT_TRACKING_ID", -1>> >>

\* C15 witness: an Up that carries tracking_id 7, written after a Down in
\* the same batch
C15_Witness ==
    /\ Len(last_batch) = 2
    /\ last_batch[1].status = "Down"
    /\ last_batch[2].status = "Up" /\ last_batch[2].tracking_id = 7
    /\ SubSeq(emitted, 7, 8) =
          << <<"ABS_MT_SLOT", last_batch[2].slot>>, <<"ABS_MT_TRACKING_ID", -1>> >>

\* C16: every ABS_MT_TRACKING_ID value the emitter outputs for a Down or a
\* Move event is >= 0, regardless of the tracking_id carried by the input
\* TouchPoint.
C16_TrackingIdNonNegative ==
    \A i \in 1..Len(last_batch) :
        last_batch[i].status \in {"Down", "Move"} =>
            LET segment == Segments(last_batch, emitted)[i]
            IN \A j \in 1..Len(segment) :
                  segment[j][1] = "ABS_MT_TRACKING_ID" => segment[j][2] >= 0

(***************************************************************************)
(*              Properties of the sensitivity and the setters              *)
(***************************************************************************)
\* C17: emitter sensitivity law.  With an integer sensitivity k and no
\* inversion, a Down at (x0, y0) followed by any sequence of Moves on the
\* same slot ending at (xn, yn) leaves last-output[slot] =
\* (x0 + k*(xn - x0), y0 + k*(yn - y0)), without clamping to the
\* 0..width / 0..height range, and that position is the one written; for
\* k = 2, Down(10,10), Move(20,10), Move(30,10) emits ABS_MT_POSITION_X
\* values 10, 30, 50.
C17_SensitivityLaw ==
    LET k == driver.sensitivity \div SensDen
        Law(position) == <<DownAt[1] + k * (position[1] - DownAt[1]),
                           DownAt[2] + k * (position[2] - DownAt[2])>>
    IN /\ \A slot \in driver.touched_slots :
             driver.last_output_position[slot] = Law(driver.last_input_position[slot])
       /\ (Len(last_batch) = 1 /\ last_batch[1].slot \in driver.touched_slots) =>
             LET position == Law(<<last_batch[1].x, last_batch[1].y>>)
                 written == SelectSeq(emitted, LAMBDA e : e[1] = "ABS_MT_POSITION_X")
             IN /\ driver.last_output_position[last_batch[1].slot] = position
                /\ written = << <<"ABS_MT_POSITION_X", position[1]>> >>
       /\ (/\ k = 2 /\ Len(last_batch) = 1 /\ last_batch[1].slot \in driver.touched_slots
           /\ last_batch[1].y = 10) =>
             \A e \in {<<10, 10>>, <<20, 30>>, <<30, 50>>} :
                last_batch[1].x = e[1] =>
                    \E i \in 1..Len(emitted) : emitted[i] = <<"ABS_MT_POSITION_X", e[2]>>

\* C17 witness: the third call of the example on the small device, writing
\* 50 past the width of 40
C17_Witness ==
    /\ driver.sensitivity = 2 * SensDen /\ driver.width = 40
    /\ driverWork = 3
    /\ last_batch = <<[slot |-> 0, tracking_id |-> 7, x |-> 30, y |-> 10, status |-> "Move"]>>
    /\ driver.touched_slots = {0}
    /\ driver.last_output_position[0] = <<50, 10>>
    /\ emitted[1] = <<"ABS_MT_POSITION_X", 50>>

\* the setting fields of the driver
Settings(d) == <<d.sensitivity, d.invert_x, d.invert_y, d.width, d.height>>

\* the per-slot state of the driver
SlotState(d) == <<d.touched_slots, d.last_input_position, d.last_output_position>>

\* a step that is the Move of one point on a slot that has positions
MoveStep ==
    /\ Settings(driver') = Settings(driver)
    /\ SlotState(driver') # SlotState(driver)
    /\ Len(last_batch') = 1 /\ last_batch'[1].status = "Move"
    /\ last_batch'[1].slot \in DOMAIN driver.last_input_position

\* the setters leave the per-slot state alone
SettersFrame ==
    Settings(driver') # Settings(driver) =>
        /\ SlotState(driver') = SlotState(driver)
        /\ UNCHANGED <<emitted, key_state, last_batch>>

\* C18 as stated: set_invert_x, set_invert_y, set_sensitivity and set_size
\* change only the setting itself, leaving the touched set and the
\* last-input and last-output of every slot unchanged; after
\* set_invert_x(true) a Move with input delta dx changes last-output x by
\* exactly -sensitivity*dx, while y is computed as before.
C18_InvertedMoveExact ==
    [][/\ SettersFrame
       /\ (MoveStep /\ driver.invert_x) =>
             LET slot == last_batch'[1].slot
                 dx == last_batch'[1].x - driver.last_input_position[slot][1]
             IN SensDen * (driver'.last_output_position[slot][1]
                              - driver.last_output_position[slot][1])
                    = -(driver.sensitivity * dx)]_vars

\* C18 amended: the setters change only the setting itself; after
\* set_invert_x(true) a Move with input delta dx moves last-output x to
\* round(last-output x - sensitivity*dx), halves away from zero, which is a
\* change of exactly -sensitivity*dx when that product is an integer; y is
\* computed as before, with +sensitivity*dy or, under invert_y,
\* -sensitivity*dy.
C18_InvertedMoveRounded ==
    [][/\ SettersFrame
       /\ MoveStep =>
             LET slot == last_batch'[1].slot
                 before == driver.last_output_position[slot]
                 after == driver'.last_output_position[slot]
                 dx == last_batch'[1].x - driver.last_input_position[slot][1]
                 dy == last_batch'[1].y - driver.last_input_position[slot][2]
                 sx == IF driver.invert_x THEN -(driver.sensitivity * dx)
                       ELSE driver.sensitivity * dx
                 sy == IF driver.invert_y THEN -(driver.sensitivity * dy)
                       ELSE driver.sensitivity * dy
             IN /\ 2 * SensDen * after[1] - 2 * (SensDen * before[1] + sx) \in -SensDen..SensDen
                /\ 2 * SensDen * after[2] - 2 * (SensDen * before[2] + sy) \in -SensDen..SensDen
                /\ sx % SensDen = 0 => SensDen * (after[1] - before[1]) = sx
                /\ sy % SensDen = 0 => SensDen * (after[2] - before[2]) = sy
                /\ 2 * SensDen * after[1] - 2 * (SensDen * before[1] + sx) \in {-SensDen, SensDen}
                      => (after[1] > 0 <=> SensDen * before[1] + sx > 0)]_vars

\* C18 witness: with invert_x set and sensitivity 1.5, a Move of dx = 1 from
\* a Down at x = 0 has put last-output x at -2
C18_Witness ==
    /\ driver.invert_x /\ driver.sensitivity = 3
    /\ last_batch = <<[slot |-> 0, tracking_id |-> 7, x |-> 1, y |-> 0, status |-> "Move"]>>
    /\ driver.touched_slots = {0}
    /\ driver.last_input_position[0] = <<1, 0>>
    /\ driver.last_output_position[0] = <<-2, 0>>

(***************************************************************************)
(*               Properties of the slot of a written position              *)
(***************************************************************************)
\* the touched set when point i of a batch is processed, from the touched
\* set before the batch
RECURSIVE TouchedAt(_, _, _)
TouchedAt(touched, touche_points, i) ==
    IF i = 1 THEN touched
    ELSE LET before == TouchedAt(touched, touche_points, i - 1)
             point == touche_points[i - 1]
         IN CASE point.status = "Down" -> before \cup {point.slot}
              [] point.status = "Up" -> before \ {point.slot}
              [] OTHER -> before

\* the events of the points before point i of the batch just written
RECURSIVE Before(_, _)
Before(segments, i) ==
    IF i = 1 THEN <<>> ELSE Before(segments, i - 1) \o segments[i - 1]

\* C29: every ABS_MT_POSITION_X / ABS_MT_POSITION_Y event the emitter
\* outputs for a touch point is applied to that point's slot: when it is
\* emitted the most recently emitted ABS_MT_SLOT value is the point's slot,
\* after any sequence of Down/Move/Up events over several slots (for example
\* a Move on slot 1 right after an Up on slot 0).  Stated for the points
\* whose slot is touched when they are processed.
C29_PositionOnOwnSlot ==
    [][\A i \in 1..Len(last_batch') :
          LET point == last_batch'[i]
              segments == Segments(last_batch', emitted')
              touched == TouchedAt(driver.touched_slots, last_batch', i + 1)
          IN (point.status \in {"Down", "Move"} /\ point.slot \in touched) =>
                \A j \in 1..Len(segments[i]) :
                   segments[i][j][1] \in {"ABS_MT_POSITION_X", "ABS_MT_POSITION_Y"} =>
                      DeviceSlot(mt_slot, Before(segments, i) \o SubSeq(segments[i], 1, j))
                         = point.slot]_vars

\* C30: a Move emits ABS_MT_SLOT and ABS_MT_TRACKING_ID ahead of its
\* position events exactly when the touched set holds more than one slot at
\* the time the Move is processed; otherwise it emits only
\* ABS_MT_POSITION_X, ABS_MT_POSITION_Y, ABS_X and ABS_Y.
C30_MovePrefix ==
    [][\A i \in 1..Len(last_batch') :
          LET point == last_batch'[i]
              names == [j \in 1..Len(Segments(last_batch', emitted')[i]) |->
                           Segments(last_batch', emitted')[i][j][1]]
              touched == TouchedAt(driver.touched_slots, last_batch', i)
          IN point.status = "Move" =>
                names = (IF Cardinality(touched) > 1
                         THEN <<"ABS_MT_SLOT", "ABS_MT_TRACKING_ID">> ELSE <<>>)
                        \o <<"ABS_MT_POSITION_X", "ABS_MT_POSITION_Y", "ABS_X", "ABS_Y">>]_vars

\* C30 witness: a batch has put a second finger down and moved the first,
\* which wrote the slot and the tracking id ahead of the position
C30_Witness ==
    /\ Len(last_batch) = 2
    /\ last_batch[1].status = "Down" /\ last_batch[1].slot = 1
    /\ last_batch[2].status = "Move" /\ last_batch[2].slot = 0
    /\ driver.touched_slots = {0, 1}
    /\ Len(emitted) >= 8
    /\ emitted[7] = <<"ABS_MT_SLOT", 0>>
    /\ emitted[8] = <<"ABS_MT_TRACKING_ID", 7>>


(***************************************************************************)
(*            Properties of the connection workers and the tracker         *)
(***************************************************************************)
\* C31: whenever the worker of a connection has exited, the live-connections
\* map eventually holds no entry for that connection's id, whichever of the
\* worker's exit and the acceptor's insert of the entry comes first.
C31_EntryGoneAfterExit ==
    \A c \in Conns : (worker[c].pc = "exited") ~> (c \notin connections)

\* ---- SignalSpec: the server of ProtocolSpec, and ConnectionClose(id)
\* broadcast on the shutdown watch at any moment, any number of times
SignalNext ==
    \/ ProtocolNext
    \/ AcceptorChanged
    \/ \E c \in Conns : WorkerChanged(c)
    \/ \E id \in Conns : SendConnectionClose(id)

\* the workers are polled, and a select! that finds its stop branch ready
\* again and again takes it in the end (the branch polled first is drawn at
\* random); the peers and the senders are under no obligation
SignalFairness ==
    /\ ProtocolFairness
    /\ WF_vars(AcceptorChanged)
    /\ \A c \in Conns : SF_vars(WorkerChanged(c))

SignalSpec == ProtocolInit /\ [][SignalNext]_vars /\ SignalFairness

\* C32: after ConnectionClose(id) is broadcast to the running worker of
\* connection id (the value is in the watch and the worker's receiver has
\* not seen it yet), that worker eventually closes its connection and
\* exits, also when it is inside the frame loop of a stream at that moment.
C32_ConnectionCloseStopsWorker ==
    \A c \in Conns :
        (/\ shutdown = ConnectionClose(c)
         /\ worker[c].changed
         /\ worker[c].pc \in {"select", "stream"})
            ~> (worker[c].closed /\ worker[c].pc = "exited")

\* ---- TwoStreamsSpec: two established connections, each inside the frame
\* loop of a stream.  The peer of connection c sends the TouchPackets of its
\* script one after the other, numbered 0, 1, 2, ... without a gap, each with
\* one pointer; connection 1 addresses slot 0 only and connection 2 slot 1
\* only.  No SettingRequest is sent.
StreamScript ==
    << << [id |-> 0, event_type |-> "Down", abs_x |-> 100, abs_y |-> 100],
          [id |-> 0, event_type |-> "Move", abs_x |-> 110, abs_y |-> 90],
          [id |-> 0, event_type |-> "Up", abs_x |-> 110, abs_y |-> 90] >>,
       << [id |-> 1, event_type |-> "Down", abs_x |-> 50, abs_y |-> 60],
          [id |-> 1, event_type |-> "Move", abs_x |-> 40, abs_y |-> 75],
          [id |-> 1, event_type |-> "Move", abs_x |-> 45, abs_y |-> 70] >> >>

\* the next packet of connection c: every packet before it made one event
StreamPacket(c) ==
    [type |-> "TouchPacket", seq |-> enqueued[c], ts_ms |-> 0,
     pointers |-> <<StreamScript[c][enqueued[c] + 1]>>]

\* the worker of connection c receives the next packet of its peer
StreamReceive(c) ==
    /\ enqueued[c] < Len(StreamScript[c])
    /\ WorkerReceive(c, StreamPacket(c), 0)

TwoStreamsNext ==
    \/ \E c \in Conns : StreamReceive(c)
    \/ TouchRecv

\* the driver as set_sensitivity, set_invert_x and set_invert_y left it before
\* the two streams began
StreamTuneSettings ==
    {[invert_x |-> FALSE, invert_y |-> FALSE, sensitivity |-> SensDen],
     [invert_x |-> TRUE, invert_y |-> FALSE, sensitivity |-> 2 * SensDen]}

TwoStreamsInit ==
    /\ HostInit
    /\ driver \in {ApplyTuneSetting(DriverNew(8192, 8192), t) : t \in StreamTuneSettings}
    /\ emitted = <<>>
    /\ driverWork = 0
    /\ key_state = KeysReleased
    /\ last_batch = <<>>
    /\ mt_slot = 0
    /\ AdmissionInit /\ ErrorCode["HelloCheckSumMismatch"] = 0
                     /\ ErrorCode["RepeatedlyAddingDevices"] = 1 /\ seed_checksum = 0
    /\ NoDevices
    /\ ServerTracker
    /\ shutdown = Empty
    /\ closePc = 0
    /\ touchProc = [pc |-> "select", changed |-> FALSE]
    /\ latencyProc = [pc |-> "select", changed |-> FALSE]
    /\ acceptor = [pc |-> "select", changed |-> FALSE, drain |-> <<>>, conn |-> 0]
    /\ connections = Conns
    /\ worker = [c \in Conns |-> [WorkerInit EXCEPT !.pc = "stream", !.ip = "10.0.0.7"]]
    /\ clock_offset_ms = 0
    /\ registered = [c \in Conns |-> FALSE]
    /\ touch_events = <<>>
    /\ enqueued = [c \in Conns |-> 0]
    /\ emit_log = <<>>
    /\ latency_data = NoCall
    /\ seq_log = <<>>

TwoStreamsSpec == TwoStreamsInit /\ [][TwoStreamsNext]_vars

\* C33: when two connections each send TouchPackets with gap-free increasing
\* sequence numbers, the lost-packet count stays 0 under every interleaving
\* of their packets at the server.
C33_NoLossAcrossConnections == tracker.lost_packets = 0

\* the driver after the events of connection c that the processor has
\* handled, had they been the only events it handled, in their own order
RECURSIVE Alone(_, _)
Alone(d, entries) ==
    IF entries = <<>> THEN d
    ELSE Alone(EmitMultitouch(d, <<Head(entries).event.touch_point>>).drv, Tail(entries))

Solo(c) ==
    Alone([driver EXCEPT !.touched_slots = {}, !.last_input_position = EmptyMap,
                         !.last_output_position = EmptyMap],
          From(emit_log, c))

\* the slots the script of connection c addresses
SlotsOf(c) == {StreamScript[c][i].id : i \in 1..Len(StreamScript[c])}

\* C34: two connections address disjoint slot sets and no setting changes.
\* Under every interleaving of their events into the emitter, the touched
\* set and the last input and last output position of every slot are those
\* obtained by handling each connection's events alone, in its own order.
C34_DisjointSlotsIndependent ==
    /\ SlotsOf(1) \cap SlotsOf(2) = {}
    /\ driver.touched_slots = UNION {Solo(c).touched_slots : c \in Conns}
    /\ DOMAIN driver.last_input_position =
          UNION {DOMAIN Solo(c).last_input_position : c \in Conns}
    /\ DOMAIN driver.last_output_position =
          UNION {DOMAIN Solo(c).last_output_position : c \in Conns}
    /\ \A c \in Conns :
          /\ \A slot \in DOMAIN Solo(c).last_input_position :
                driver.last_input_position[slot] = Solo(c).last_input_position[slot]
          /\ \A slot \in DOMAIN Solo(c).last_output_position :
                driver.last_output_position[slot] = Solo(c).last_output_position[slot]

\* C34 witness: every event of both scripts has been handled, those of the
\* two connections in turn, with a sensitivity of 2 and x inverted; slot 0
\* has been lifted and slot 1 is where its own moves put it
C34_Witness ==
    /\ Len(emit_log) = 6
    /\ \A i \in 1..6 : emit_log[i].from = IF i % 2 = 1 THEN 2 ELSE 1
    /\ driver.sensitivity = 2 * SensDen /\ driver.invert_x
    /\ driver.touched_slots = {1}
    /\ driver.last_input_position = MapInsert(EmptyMap, 1, <<45, 70>>)
    /\ driver.last_output_position = MapInsert(EmptyMap, 1, <<60, 80>>)

\* a step that is a call of record_packet which returned
RecordPacketReturned ==
    /\ Len(seq_log') = Len(seq_log) + 1
    /\ latency_data'.called
    /\ ~latency_data'.panicked

\* C35: a call of record_packet that returns None has incremented the
\* total-packet count, applied the loss accounting and stored seq + 1 (a u32)
\* as the expected next sequence number, and has left the sample ring, the
\* running min and the running max as they were.
C35_NoneStillCounts ==
    [][(RecordPacketReturned /\ ~latency_data'.returned.some) =>
          LET seq == latency_data'.seq
              gap == IF tracker.expected_seq > 0 /\ seq > tracker.expected_seq
                     THEN seq - tracker.expected_seq ELSE 0
          IN /\ tracker'.total_packets = tracker.total_packets + 1
             /\ tracker'.lost_packets = tracker.lost_packets + gap
             /\ tracker'.expected_seq = (seq + 1) % SeqModulus
             /\ tracker'.samples = tracker.samples
             /\ tracker'.min_latency = tracker.min_latency
             /\ tracker'.max_latency = tracker.max_latency]_vars

\* C35 witness: after a sample of 200 ms, packet 2 arrives where packet 1 was
\* expected, with a negative latency: None, one packet lost, 3 expected next,
\* the ring and the extremes still those of the first packet
C35_Witness ==
    /\ latency_data.called /\ ~latency_data.panicked /\ ~latency_data.returned.some
    /\ seq_log = <<0, 2>>
    /\ tracker.total_packets = 2 /\ tracker.lost_packets = 1 /\ tracker.expected_seq = 3
    /\ tracker.samples = <<200000>>
    /\ tracker.min_latency = Some(200000) /\ tracker.max_latency = Some(200000)

\* the last n entries of q
LastN(q, n) == IF Len(q) > n THEN SubSeq(q, Len(q) - n + 1, Len(q)) ELSE q

\* C36: on a tracker with a window of N >= 1 samples the ring holds at most
\* N samples, none of them negative; a call of record_packet that returns a
\* sample has put its latency behind the samples of the ring and dropped the
\* oldest if that made more than N, a call that returns None has left the
\* ring alone (so the ring is the most recent non-negative latencies in
\* arrival order), and the avg of a returned sample is the integer mean of
\* exactly the samples then in the ring.
C36_RingAndMean ==
    /\ [](/\ tracker.max_samples >= 1
          /\ Len(tracker.samples) <= tracker.max_samples
          /\ \A i \in 1..Len(tracker.samples) : tracker.samples[i] >= 0)
    /\ [][RecordPacketReturned =>
             IF latency_data'.returned.some
             THEN LET sample == latency_data'.returned.value
                  IN /\ sample.current_latency_us >= 0
                     /\ tracker'.samples =
                           LastN(Append(tracker.samples, sample.current_latency_us),
                                 tracker.max_samples)
                     /\ sample.avg_latency_us =
                           SumSeq(tracker'.samples) \div Len(tracker'.samples)
             ELSE tracker'.samples = tracker.samples]_vars

\* C36 witness: a window of 2; samples of 300 ms, 0 ms and 200 ms have
\* arrived in that order, the first has been evicted and the mean returned
\* with the third is that of the two in the ring
C36_Witness ==
    /\ tracker.max_samples = 2
    /\ tracker.total_packets = 3
    /\ tracker.samples = <<0, 200000>>
    /\ tracker.max_latency = Some(300000)
    /\ latency_data.returned.some
    /\ latency_data.returned.value.current_latency_us = 200000
    /\ latency_data.returned.value.avg_latency_us = 100000

\* C37: the packet-loss rate of every sample returned by record_packet, and
\* of every snapshot of the tracker, is a percentage between 0 and 100,
\* whatever the sequence numbers of the calls.
C37_LossRateIsPercentage ==
    /\ 0 <= PacketLossRate(tracker)[1]
    /\ PacketLossRate(tracker)[1] <= 100 * PacketLossRate(tracker)[2]
    /\ latency_data.returned.some =>
          /\ 0 <= latency_data.returned.value.packet_loss_rate[1]
          /\ latency_data.returned.value.packet_loss_rate[1]
                <= 100 * latency_data.returned.value.packet_loss_rate[2]

\* C38: record_packet handles the largest sequence number.  For seq =
\* 2^32 - 1 (the largest u32; the model's u32 has SeqBits bits) the call
\* returns, and the expected next sequence number it stores is not 0, the
\* value that makes the next packet a first packet.
C38_LargestSeqHandled ==
    [][(/\ Len(seq_log') = Len(seq_log) + 1
        /\ latency_data'.called
        /\ seq_log'[Len(seq_log')] = SeqModulus - 1) =>
          /\ ~latency_data'.panicked
          /\ tracker'.expected_seq > 0]_vars

(***************************************************************************)
(*                   Properties of the length prefix                       *)
(***************************************************************************)
\* ---- VarintSpec: the length prefix alone.  Buffers of every length up to
\* MaxBodyLength are encoded onto a stream, or a peer writes a prefix of its
\* own, and the prefix at the head of the stream is read
MaxBodyLength == 4096

\* prefixes of five bytes with and without a continuation bit on the fifth,
\* of six bytes, and ones that are cut short
RawPrefixes ==
    {<<128, 128, 128, 128, 128, 1>>, <<128, 128, 128, 128, 128>>,
     <<255, 255, 255, 255, 15>>, <<128, 128, 128, 128, 1>>, <<128, 128>>, <<129, 1>>}

\* (one write on a stream: the prefix read is the one written)
VarintNext ==
    /\ \/ \E length \in 0..MaxBodyLength :
             reader.frames = 0 /\ EncodeWithLengthPrefixCall(length)
       \/ \E bytes \in RawPrefixes : reader.frames = 0 /\ PeerWrite(bytes)
       \/ PeerFinish
       \/ ReadVarintCall
    /\ UNCHANGED <<driverVars, admVars, mapVars, serverVars, emitVars, pipeVars, trackerVars>>

VarintSpec == CodecSpecInit /\ [][VarintNext]_vars

\* C39: for every body length n in 0..4096 the prefix the encoder writes is
\* 1 to 5 bytes long and the reader returns n from it; on any byte stream
\* the reader consumes at most 5 prefix bytes, and it fails when the fifth
\* byte still has its continuation bit set.
C39_LengthPrefixVarint ==
    [][(codec'.op = "read_varint" /\ reader' # reader) =>
          LET r == codec'.returned
              prefix == Len(codec.returned) - codec.length
          IN /\ (codec.op = "encode" /\ reader.bytes = codec.returned) =>
                   /\ prefix \in 1..5
                   /\ r.kind = "Ok" /\ r.top = 0 /\ r.value = codec.length
                   /\ r.consumed = prefix
             /\ r.kind # "Panic"
             /\ r.consumed <= 5
             /\ (Len(reader.bytes) >= 5 /\ \A i \in 1..5 : reader.bytes[i] >= 128) =>
                   r.kind = "Err"]_vars

(***************************************************************************)
(*                     Properties of the batch report                      *)
(***************************************************************************)
\* C40: every call of emit_multitouch, on an empty batch too, hands the
\* device exactly one SYN_REPORT, as the last event of the batch: after the
\* position events of the points and after the tool-count key events, which
\* themselves come after every position event.  (Every step of ToolCountSpec
\* is a call of emit_multitouch.)
C40_OneSynReportLast ==
    [][LET n == Len(emitted')
       IN /\ n >= 1
          /\ emitted'[n] = <<"SYN_REPORT", 1>>
          /\ \A i \in 1..(n - 1) : emitted'[i][1] # "SYN_REPORT"
          /\ \A i, j \in 1..(n - 1) :
                (emitted'[i][1] \in KeyNames /\ i < j) => emitted'[j][1] \in KeyNames]_vars

\* C40 witness: an empty batch, handed to an emitter with a finger down, has
\* made the report and nothing else
C40_Witness ==
    /\ last_batch = <<>>
    /\ driver.touched_slots = {0}
    /\ emitted = << <<"SYN_REPORT", 1>> >>

====
